---- MODULE Spec2Model ----
(***************************************************************************)
(* Message-arrival coordinator of the WebSocket responder Lambda           *)
(* (src/Cursor/User/History/733b3e8d/9HPk.py).                             *)
(*                                                                         *)
(* Debounce path: every inbound message runs armazenar_mensagem_pendente   *)
(* (get_item, then update_item or put_item, then an asynchronous           *)
(* self-invocation); every self-invocation sleeps and then runs            *)
(* obter_e_limpar_mensagens_acumuladas (get_item, then update_item).       *)
(* Invocations of the Lambda run concurrently, so each DynamoDB call is    *)
(* one step and the steps of different invocations interleave.             *)
(*                                                                         *)
(* Time is counted in ticks of 50 ms, so that two timestamps can differ    *)
(* by less than the 0.1 s tolerance of the timer comparison.               *)
(***************************************************************************)
EXTENDS Integers, Sequences, FiniteSets, TLC

\* ------------------------------------------------------------ bounds
\* Number of inbound messages of the one correspondent that is modelled.
MaxMsgs == 3
\* The clock advances by single 50 ms ticks at most this many times; otherwise
\* it advances to the instant at which the next sleeping wakeup is due.
MaxFineTicks == 1
\* Total number of collaborator failures (DynamoDB calls, Lambda invoke).
MaxFaults == 1

\* Processing passes, writes of the business Lambdas and passes during which
\* ledger writes fail in one run of the negotiation ledger.
MaxPassos == 3
MaxEscritas == 2
MaxFalhasLedger == 2

\* Failures of the collaborators of a dispatch (ledger, history log, agent,
\* delivery gateway) in one run of the dispatch.
MaxFalhasCanal == 1
\* The ticks that pass while two concurrent passes run.
MaxAvancos == 2
\* The digits of a contact address after its prefix.
MaxDigitos == 14
\* The messages of a drained batch.
MaxLote == 2

\* ------------------------------------------------------------ constants
\* MESSAGE_ACCUMULATION_DELAY and MESSAGE_EXTENSION_DELAY, in seconds.
MESSAGE_ACCUMULATION_DELAY == 10
MESSAGE_EXTENSION_DELAY == 3

Ticks(seconds) == seconds * 20
\* abs(stored_timer - timer_timestamp) > 0.1
TimerTolerance == Ticks(1) \div 10

MsgIds == 1..MaxMsgs

\* mensagem.get('texto', '') of the k-th inbound message.
Texto(k) == IF k = 1 THEN "Oi" ELSE IF k = 2 THEN "bom dia" ELSE "ok"

\* A missing attribute / missing item of the sessoes table.
NoTimer == 0 - 1
NoItem == [present |-> FALSE, pending_messages |-> <<>>,
           timer_timestamp |-> NoTimer, timer_active |-> FALSE]

Abs(x) == IF x < 0 THEN 0 - x ELSE x

VARIABLES
    now,         \* wall clock, in ticks
    item,        \* the correspondent's record in the sessoes table
    acc,         \* acc[k]: the invocation of lambda_handler for message k
    wk,          \* wk[k]: the self-invocation scheduled by acc[k]
    dispatched,  \* the calls of processar_e_responder made so far
    faults,      \* collaborator failures so far
    fine,        \* 50 ms ticks so far
    negociacao,  \* the correspondent's records in the negociacao table
    passo,       \* the processing pass (processar_com_chatbot) under way
    escritas,    \* writes of the business Lambdas so far
    desp,        \* the call of processar_e_responder under way
    historico,   \* the correspondent's message-history log
    renov,       \* renov[p]: the lifecycle calls of concurrent pass p
    tel,         \* a contact address and what the normalizations make of it
    lote,        \* a drained batch and the text that its handler builds
    copias       \* the two copies of the session lifecycle side by side

\* The dispatch and its message-history log; the passes over the ledger that
\* are followed for the ledger's sake leave them alone.
despacho == <<desp, historico, renov, tel, lote, copias>>

\* The negotiation ledger, its passes and the dispatch; the debounce path
\* leaves them alone.
ledger == <<negociacao, passo, escritas, desp, historico, renov, tel, lote, copias>>

vars == <<now, item, acc, wk, dispatched, faults, fine, negociacao, passo,
          escritas, desp, historico, renov, tel, lote, copias>>

\* ------------------------------------------------------------ pure functions

\* The entry appended to pending_messages for message k.
PendingEntry(k, timestamp_atual) ==
    [codMensagem |-> k, texto |-> Texto(k), timestamp |-> timestamp_atual]

RECURSIVE JoinLines(_)
JoinLines(textos) ==
    IF Len(textos) = 0 THEN ""
    ELSE IF Len(textos) = 1 THEN textos[1]
    ELSE textos[1] \o "\n" \o JoinLines(Tail(textos))

RECURSIVE NonEmptyTexts(_)
NonEmptyTexts(mensagens) ==
    IF Len(mensagens) = 0 THEN <<>>
    ELSE IF Head(mensagens).texto # ""
         THEN <<Head(mensagens).texto>> \o NonEmptyTexts(Tail(mensagens))
         ELSE NonEmptyTexts(Tail(mensagens))

\* Variant: only the first message of the batch is forwarded.
CombinarSoPrimeira(mensagens) ==
    IF Len(mensagens) = 0 THEN "" ELSE mensagens[1].texto

combinar_mensagens(mensagens) ==
    IF Len(mensagens) = 0 THEN ""
    ELSE IF Len(mensagens) = 1 THEN mensagens[1].texto
    ELSE JoinLines(NonEmptyTexts(mensagens))

\* float(item.get('timer_timestamp', 0))
StoredTimer(it) == IF it.timer_timestamp = NoTimer THEN 0 ELSE it.timer_timestamp

\* The wakeup is stale: abs(stored_timer - timer_timestamp) > 0.1
TimerInvalidated(it, timer_timestamp) ==
    Abs(StoredTimer(it) - timer_timestamp) > TimerTolerance

\* if item and item.get('timer_active')
TimerAtivo(it) == it.present /\ it.timer_active

\* ------------------------------------------------------------ the ledger
\* The session window (session_age_seconds < 3600) and MEMORY_TIMEOUT, seconds.
SESSION_TIMEOUT == 3600
MEMORY_TIMEOUT == 604800
\* now.replace(minute=0, second=0, microsecond=0): seconds of one hour bucket.
SegundosPorHora == 3600

\* An attribute that the item does not carry.
Ausente == 0 - 1
\* An attribute that the item carries with an empty value: the equipment list
\* of a vehicle without equipment, [].
Vazio == 0

\* The attributes of a negotiation item besides its key (telefone, tempo_sessao).
\* 'vcid', 'eqids' and 'ts' are the names under which
\* _salvar_veiculos_motorista stores the vehicle id, the equipment list and the
\* update instant when it has to create the item.
Campos ==
    {"session_id", "negociacao_iniciada_em", "tempo_memoria", "carga_id",
     "veiculo_cavalo_id", "equipamento_ids", "veiculos_updated_at", "vcid",
     "eqids", "ts"}

\* immutable_fields of _get_previous_negotiation_data.
immutable_fields ==
    {"carga_id", "veiculo_cavalo", "veiculo_cavalo_id", "id_veiculo_equipamento",
     "equipamento_ids", "tipo_veiculo_id", "tipo_equipamento_id",
     "tempo_memoria", "placa_cavalo", "placa_equipamento"}

\* The cargo ids, the vehicle id and the equipment list (the vehicle has no
\* equipment) that the business Lambdas store.
CargaIds == {42, 43}
VeiculoIds == {7}
EquipamentoIds == {Vazio}

SemAtributos == [c \in Campos |-> Ausente]

\* A stored timestamp in none of the formats that _parse_timestamp_to_unix
\* reads: parsing it raises ValueError.
Ilegivel == 0 - 2

\* strftime("%Y-%m-%dT%H:00:00Z") of the hour of instant t: the sort key of the
\* items that the session logic writes. `hora` tells the two key formats apart.
current_tempo_sessao(t) ==
    [t |-> t - (t % Ticks(SegundosPorHora)), hora |-> TRUE]

\* strftime("%Y-%m-%dT%H:%M:%S.%fZ") of instant t used as the sort key.
ChaveExata(t) == [t |-> t, hora |-> FALSE]

\* Order of two sort keys as strings. "..THH:00:00Z" and "..THH:MM:SS.ffffffZ"
\* of the same hour differ first at the minutes or seconds, or, when both are
\* zero, at 'Z' against '.', and '.' sorts first.
ChaveMenor(a, b) ==
    IF a.hora = b.hora THEN a.t < b.t
    ELSE IF a.hora
         THEN IF a.t = current_tempo_sessao(b.t).t
              THEN b.t - a.t >= Ticks(1)
              ELSE a.t < b.t
         ELSE IF b.t = current_tempo_sessao(a.t).t
              THEN a.t - b.t < Ticks(1)
              ELSE a.t < b.t

\* query(ScanIndexForward=False, Limit=1): the item with the greatest sort key.
MaisRecente(tabela) ==
    CHOOSE r \in tabela :
        \A q \in tabela : q = r \/ ChaveMenor(q.tempo_sessao, r.tempo_sessao)

\* put_item: the item replaces the one with the same key, if any.
PutItem(tabela, r) ==
    {q \in tabela : q.tempo_sessao # r.tempo_sessao} \cup {r}

\* A variant that replaces the item with the given key by one that carries the
\* attributes in `novos` only.
UpdateItemSubstitui(tabela, chave, novos) ==
    PutItem(tabela, [tempo_sessao |-> chave, attrs |-> novos])

\* update_item SET of the attributes in `novos` on the item with the given key;
\* DynamoDB creates the item when the key does not exist.
UpdateItem(tabela, chave, novos) ==
    LET antigo == IF \E q \in tabela : q.tempo_sessao = chave
                  THEN (CHOOSE q \in tabela : q.tempo_sessao = chave).attrs
                  ELSE SemAtributos
    IN PutItem(tabela,
               [tempo_sessao |-> chave,
                attrs |-> [c \in Campos |->
                             IF novos[c] # Ausente THEN novos[c] ELSE antigo[c]]])

\* int(datetime.timestamp()) and _parse_timestamp_to_unix of a
\* "%Y-%m-%dT%H:%M:%S.%fZ" string: whole seconds, the fraction is dropped.
_parse_timestamp_to_unix(t) == t \div Ticks(1)

\* A variant that still accepts a memory timestamp as old as the window.
MemoryValidFrouxo(tempo_memoria, t) ==
    /\ tempo_memoria # Ausente
    /\ tempo_memoria # Ilegivel
    /\ _parse_timestamp_to_unix(t) - _parse_timestamp_to_unix(tempo_memoria)
           <= MEMORY_TIMEOUT

\* _is_memory_valid at instant t; a timestamp that cannot be parsed is not
\* valid (the except branch returns False).
_is_memory_valid(tempo_memoria, t) ==
    /\ tempo_memoria # Ausente
    /\ tempo_memoria # Ilegivel
    /\ _parse_timestamp_to_unix(t) - _parse_timestamp_to_unix(tempo_memoria)
           < MEMORY_TIMEOUT

\* _get_session_timestamp_from_negociacao: (tempo_sessao, session_id) of the
\* latest item, or (None, None).
_get_session_timestamp_from_negociacao(tabela) ==
    IF tabela = {}
    THEN [achou |-> FALSE, tempo_sessao |-> ChaveExata(0), session_id |-> Ausente]
    ELSE [achou |-> TRUE,
          tempo_sessao |-> MaisRecente(tabela).tempo_sessao,
          session_id |-> MaisRecente(tabela).attrs["session_id"]]

\* _get_memory_timestamp_from_negociacao: tempo_memoria of the latest item.
_get_memory_timestamp_from_negociacao(tabela) ==
    IF tabela = {} THEN Ausente ELSE MaisRecente(tabela).attrs["tempo_memoria"]

\* A variant that hands over every attribute of the latest item.
PreviousDataTudo(tabela) ==
    IF tabela = {} THEN SemAtributos ELSE MaisRecente(tabela).attrs

\* _get_previous_negotiation_data: the immutable fields that the latest item
\* carries with a value that is not empty ("field in prev_item and
\* prev_item[field]").
_get_previous_negotiation_data(tabela) ==
    IF tabela = {} THEN SemAtributos
    ELSE [c \in Campos |->
            IF c \in immutable_fields /\ MaisRecente(tabela).attrs[c] # Vazio
            THEN MaisRecente(tabela).attrs[c]
            ELSE Ausente]

\* A variant that never carries the memory timestamp over.
ItemSessaoSemMemoria(tabela, t, tempo_sessao, session_id, negociacao_iniciada_em) ==
    LET inherited_data == _get_previous_negotiation_data(tabela)
    IN [tempo_sessao |-> tempo_sessao,
        attrs |-> [c \in Campos |->
            IF c = "session_id" THEN session_id
            ELSE IF c = "negociacao_iniciada_em" THEN negociacao_iniciada_em
            ELSE IF c = "tempo_memoria" THEN Ausente
            ELSE inherited_data[c]]]

\* The item that _save_session_timestamp_to_negociacao puts at instant t.
ItemSessao(tabela, t, tempo_sessao, session_id, negociacao_iniciada_em) ==
    LET inherited_data == _get_previous_negotiation_data(tabela)
    IN [tempo_sessao |-> tempo_sessao,
        attrs |-> [c \in Campos |->
            IF c = "session_id" THEN session_id
            ELSE IF c = "negociacao_iniciada_em" THEN negociacao_iniciada_em
            ELSE IF c = "tempo_memoria"
                 THEN IF _is_memory_valid(inherited_data[c], t)
                      THEN inherited_data[c] ELSE Ausente
            ELSE inherited_data[c]]]

\* A variant that stores the item under the instant of the call instead of
\* the hour bucket.
SaveSessionChaveExata(tabela, t, tempo_sessao, session_id, negociacao_iniciada_em, ok) ==
    IF ok
    THEN PutItem(tabela, ItemSessao(tabela, t, ChaveExata(t), session_id,
                                    negociacao_iniciada_em))
    ELSE tabela

\* _save_session_timestamp_to_negociacao; a failing put_item is only logged.
_save_session_timestamp_to_negociacao(tabela, t, tempo_sessao, session_id, negociacao_iniciada_em, ok) ==
    IF ok
    THEN PutItem(tabela, ItemSessao(tabela, t, tempo_sessao, session_id,
                                    negociacao_iniciada_em))
    ELSE tabela

\* A variant that still reuses the pointer when its age is exactly the window.
RamoSessaoFrouxo(tabela, t) ==
    LET existing == _get_session_timestamp_from_negociacao(tabela)
        session_age_seconds ==
            _parse_timestamp_to_unix(t) - _parse_timestamp_to_unix(existing.session_id)
    IN IF ~existing.achou \/ existing.session_id = Ausente THEN "cria"
       ELSE IF session_age_seconds <= SESSION_TIMEOUT
            THEN IF existing.tempo_sessao = current_tempo_sessao(t)
                 THEN "reusa" ELSE "roda"
            ELSE "renova"

\* The branch that _get_or_create_session_id takes at instant t.
RamoSessao(tabela, t) ==
    LET existing == _get_session_timestamp_from_negociacao(tabela)
        session_age_seconds ==
            _parse_timestamp_to_unix(t) - _parse_timestamp_to_unix(existing.session_id)
    IN IF ~existing.achou \/ existing.session_id = Ausente THEN "cria"
       ELSE IF session_age_seconds < SESSION_TIMEOUT
            THEN IF existing.tempo_sessao = current_tempo_sessao(t)
                 THEN "reusa" ELSE "roda"
            ELSE "renova"

\* A variant that stores the item on every call, reuse included.
GetOrCreateSessionSempreGrava(tabela, t, ok) ==
    LET ramo == RamoSessao(tabela, t)
        existing_session_id == _get_session_timestamp_from_negociacao(tabela).session_id
        session_id == IF ramo \in {"cria", "renova"} THEN t ELSE existing_session_id
    IN [ramo |-> ramo,
        session_id |-> session_id,
        session_renewed |-> (ramo = "renova"),
        tabela |-> _save_session_timestamp_to_negociacao(
                       tabela, t, current_tempo_sessao(t), session_id, t, ok)]

\* A variant that reuses the pointer across the hour without storing an item
\* under the new bucket.
GetOrCreateSessionSemRotacao(tabela, t, ok) ==
    LET ramo == RamoSessao(tabela, t)
        existing_session_id == _get_session_timestamp_from_negociacao(tabela).session_id
        session_id == IF ramo \in {"cria", "renova"} THEN t ELSE existing_session_id
    IN [ramo |-> ramo,
        session_id |-> session_id,
        session_renewed |-> (ramo = "renova"),
        tabela |-> IF ramo \in {"reusa", "roda"} THEN tabela
                   ELSE _save_session_timestamp_to_negociacao(
                            tabela, t, current_tempo_sessao(t), session_id, t, ok)]

\* A variant that reports a renewal whenever it mints a pointer.
GetOrCreateSessionSempreRenova(tabela, t, ok) ==
    LET ramo == RamoSessao(tabela, t)
        existing_session_id == _get_session_timestamp_from_negociacao(tabela).session_id
        session_id == IF ramo \in {"cria", "renova"} THEN t ELSE existing_session_id
    IN [ramo |-> ramo,
        session_id |-> session_id,
        session_renewed |-> (ramo \in {"cria", "renova"}),
        tabela |-> IF ramo = "reusa" THEN tabela
                   ELSE _save_session_timestamp_to_negociacao(
                            tabela, t, current_tempo_sessao(t), session_id, t, ok)]

\* _get_or_create_session_id at instant t: the pointer and flag it returns and
\* the table it leaves.
\* A variant that returns no pointer when the item could not be stored.
GetOrCreateSessionSoSeGravou(tabela, t, ok) ==
    LET ramo == RamoSessao(tabela, t)
        existing_session_id == _get_session_timestamp_from_negociacao(tabela).session_id
        session_id == IF ramo \in {"cria", "renova"} THEN t ELSE existing_session_id
    IN [ramo |-> ramo,
        session_id |-> IF ramo = "reusa" \/ ok THEN session_id ELSE Ausente,
        session_renewed |-> (ramo = "renova"),
        tabela |-> IF ramo = "reusa" THEN tabela
                   ELSE _save_session_timestamp_to_negociacao(
                            tabela, t, current_tempo_sessao(t), session_id, t, ok)]

_get_or_create_session_id(tabela, t, ok) ==
    LET ramo == RamoSessao(tabela, t)
        existing_session_id == _get_session_timestamp_from_negociacao(tabela).session_id
        session_id == IF ramo \in {"cria", "renova"} THEN t ELSE existing_session_id
    IN [ramo |-> ramo,
        session_id |-> session_id,
        session_renewed |-> (ramo = "renova"),
        tabela |-> IF ramo = "reusa" THEN tabela
                   ELSE _save_session_timestamp_to_negociacao(
                            tabela, t, current_tempo_sessao(t), session_id, t, ok)]

\* _save_memory_timestamp_to_negociacao at instant t; a failing write is only
\* logged.
_save_memory_timestamp_to_negociacao(tabela, t, tempo_memoria, ok) ==
    LET recente == _get_session_timestamp_from_negociacao(tabela)
    IN IF ~ok THEN tabela
       ELSE IF ~recente.achou \/ recente.session_id = Ausente
            THEN PutItem(tabela,
                    [tempo_sessao |-> current_tempo_sessao(t),
                     attrs |-> [SemAtributos EXCEPT
                                   !["session_id"] = t,
                                   !["tempo_memoria"] = tempo_memoria,
                                   !["negociacao_iniciada_em"] = t]])
            ELSE UpdateItem(tabela, recente.tempo_sessao,
                    [SemAtributos EXCEPT !["tempo_memoria"] = tempo_memoria])

\* A variant for which a stored memory timestamp never expires.
RamoMemoriaSempreValida(tabela, t) ==
    LET existing_tempo_memoria == _get_memory_timestamp_from_negociacao(tabela)
    IN IF existing_tempo_memoria = Ausente THEN "cria" ELSE "reusa"

\* The branch that _get_or_create_memory_id takes at instant t.
RamoMemoria(tabela, t) ==
    LET existing_tempo_memoria == _get_memory_timestamp_from_negociacao(tabela)
    IN IF existing_tempo_memoria = Ausente THEN "cria"
       ELSE IF _is_memory_valid(existing_tempo_memoria, t) THEN "reusa"
       ELSE "renova"

\* _get_or_create_memory_id at instant t: tempo_memoria of the memory id
\* f"{telefone}_mem_{tempo_memoria}" it returns and the table it leaves.
_get_or_create_memory_id(tabela, t, ok) ==
    LET ramo == RamoMemoria(tabela, t)
    IN IF ramo = "reusa"
       THEN [ramo |-> ramo,
             tempo_memoria |-> _get_memory_timestamp_from_negociacao(tabela),
             tabela |-> tabela]
       ELSE [ramo |-> ramo,
             tempo_memoria |-> t,
             tabela |-> _save_memory_timestamp_to_negociacao(tabela, t, t, ok)]

\* salvar_carga_id_na_negociacao at instant t.
salvar_carga_id_na_negociacao(tabela, t, carga_id) ==
    IF tabela # {}
    THEN UpdateItem(tabela, MaisRecente(tabela).tempo_sessao,
                    [SemAtributos EXCEPT !["carga_id"] = carga_id])
    ELSE PutItem(tabela,
             [tempo_sessao |-> current_tempo_sessao(t),
              attrs |-> [SemAtributos EXCEPT
                            !["session_id"] = t,
                            !["negociacao_iniciada_em"] = t,
                            !["carga_id"] = carga_id]])

\* _salvar_veiculos_motorista at instant t: the references it stores in the
\* negociacao table.
_salvar_veiculos_motorista(tabela, t, veiculo_id, equipamento_ids) ==
    IF tabela # {}
    THEN UpdateItem(tabela, MaisRecente(tabela).tempo_sessao,
                    [SemAtributos EXCEPT !["veiculo_cavalo_id"] = veiculo_id,
                                         !["equipamento_ids"] = equipamento_ids,
                                         !["veiculos_updated_at"] = t])
    ELSE PutItem(tabela,
             [tempo_sessao |-> ChaveExata(t),
              attrs |-> [SemAtributos EXCEPT !["vcid"] = veiculo_id,
                                             !["eqids"] = equipamento_ids,
                                             !["ts"] = t]])

\* No pass under way. n counts the passes; ramo and ramo_memoria are the
\* branches the two lifecycle calls took; memoria_antes is the tempo_memoria
\* the latest item held when the pass began and inicio is the instant at which
\* it began; falhou counts the ledger writes of the pass that have failed;
\* seguidos tells that every pass so far began less than the session window
\* after the one before it, and seguidos_mem the same for the memory window.
PassoIdle ==
    [pc |-> "idle", n |-> 0, ramo |-> "", session_id |-> Ausente,
     session_renewed |-> FALSE, ramo_memoria |-> "", tempo_memoria |-> Ausente,
     memoria_antes |-> Ausente, inicio |-> Ausente, falhou |-> 0,
     seguidos |-> TRUE, seguidos_mem |-> TRUE]

\* No call of processar_e_responder under way. n counts the calls; origem is
\* the handler that made the call and from_sse its flag; restantes counts the
\* unread messages that a channel transition still has to process;
\* sem_registro tells that the inbound message is not in the history log;
\* falhas names the collaborator calls of the dispatch that failed;
\* reconstruiu tells that build_context_from_history was called
\* and contexto that its digest was put before the message text; codConversa
\* is the session pointer put into the message for the agent; agente is the
\* outcome of the invocation ("success", "error", "raise"); texto is the reply
\* handed to the delivery gateway ("" when none was), entregue tells that the
\* gateway accepted it and registrada that it is in the history log;
\* statusCode is what the handler returned.
DespIdle ==
    [pc |-> "idle", n |-> 0, origem |-> "", from_sse |-> FALSE, restantes |-> 0,
     sem_registro |-> FALSE, falhas |-> {}, reconstruiu |-> FALSE,
     contexto |-> FALSE, codConversa |-> Ausente, agente |-> "", texto |-> "",
     entregue |-> FALSE, registrada |-> FALSE, statusCode |-> 0]

\* No concurrent pass is followed.
SemRenovacao == <<>>

\* No contact address and no drained batch are followed.
SemTelefone == <<>>
SemLote == <<>>

\* The two copies of the session lifecycle are not followed side by side.
SemCopias == <<>>

LedgerInit ==
    /\ negociacao = {}
    /\ passo = PassoIdle
    /\ escritas = 0
    /\ desp = DespIdle
    /\ historico = <<>>
    /\ renov = SemRenovacao
    /\ tel = SemTelefone
    /\ lote = SemLote
    /\ copias = SemCopias

\* ------------------------------------------------------------ initial state
AccIdle == [pc |-> "idle", timestamp_atual |-> 0, item |-> NoItem,
            deve_processar |-> FALSE, is_first_message |-> FALSE,
            mensagens_acumuladas |-> 0, agendado |-> FALSE, erro |-> FALSE]
WkNone == [pc |-> "none", timer_timestamp |-> 0, delay_seconds |-> 0,
           started |-> 0, mensagens |-> <<>>]

Init ==
    /\ now = Ticks(1)
    /\ item = NoItem
    /\ acc = [k \in MsgIds |-> AccIdle]
    /\ wk = [k \in MsgIds |-> WkNone]
    /\ dispatched = {}
    /\ faults = 0
    /\ fine = 0
    /\ LedgerInit

\* ------------------------------------------------------------ the clock
CanFail == faults < MaxFaults

\* time.sleep(delay_seconds) of the self-invocation wk[k] ends at this instant.
Due(k) == wk[k].started + Ticks(wk[k].delay_seconds)

Sleeping == {k \in MsgIds : wk[k].pc = "sleeping" /\ Due(k) > now}

\* An invocation is between two calls of the store, or its sleep is over and
\* it has not yet read the record.
EmVoo ==
    \E k \in MsgIds :
        \/ acc[k].pc = "read"
        \/ wk[k].pc = "read"
        \/ wk[k].pc = "sleeping" /\ Due(k) <= now

\* 50 ms pass.
TickFine ==
    /\ fine < MaxFineTicks
    /\ \E k \in MsgIds : acc[k].pc # "done"
    /\ fine' = fine + 1
    /\ now' = now + 1
    /\ UNCHANGED <<item, acc, wk, dispatched, faults>>
    /\ UNCHANGED ledger

\* Time passes until the next sleeping self-invocation wakes up, or until one
\* tick before that. Invocations run within the 50 ms ticks: when time advances
\* this far, every invocation is asleep, finished or not yet started.
TickToDue ==
    /\ ~EmVoo
    /\ \E k \in Sleeping :
          /\ \A j \in Sleeping : Due(k) <= Due(j)
          /\ \/ now' = Due(k)
             \/ /\ Due(k) - 1 > now
                /\ now' = Due(k) - 1
    /\ UNCHANGED <<fine, item, acc, wk, dispatched, faults>>
    /\ UNCHANGED ledger

\* ------------------------------------------------------------ Accept
\* processar_e_responder(cod_conversa, mensagem) with the one message k.
ProcessarSolo(k) ==
    dispatched \cup {[origem |-> "solo", de |-> k, texto |-> Texto(k)]}

\* processar_mensagens_acumuladas_handler, non-empty batch:
\* processar_e_responder(cod_conversa, mensagem_combinada).
ProcessarLote(k, mensagens) ==
    dispatched \cup {[origem |-> "lote", de |-> k,
                       texto |-> combinar_mensagens(mensagens)]}

\* A variant that processes every message at once, stored or not.
LambdaHandlerSempreProcessa(k, resultado) == ProcessarSolo(k)

\* lambda_handler after armazenar_mensagem_pendente returned `resultado`:
\* the message waits for the timer, or is processed at once.
lambda_handler(k, resultado) ==
    IF resultado.deve_processar THEN ProcessarSolo(k) ELSE dispatched

\* Variant: the except branch reports the message as stored.
AccErroSilencioso(a) ==
    [a EXCEPT !.pc = "done", !.item = NoItem, !.erro = TRUE,
              !.deve_processar = FALSE, !.is_first_message = TRUE]

\* The except branch of armazenar_mensagem_pendente.
AccErro(a) ==
    [a EXCEPT !.pc = "done", !.item = NoItem, !.erro = TRUE,
              !.deve_processar = TRUE, !.is_first_message = TRUE]

\* The two normal returns of armazenar_mensagem_pendente.
AccOk(a, is_first_message, mensagens_acumuladas, agendado) ==
    [a EXCEPT !.pc = "done", !.item = NoItem,
              !.deve_processar = FALSE,
              !.is_first_message = is_first_message,
              !.mensagens_acumuladas = mensagens_acumuladas,
              !.agendado = agendado]

\* Messages arrive in the order of their numbers.
PodeChegar(k) == IF k = 1 THEN TRUE ELSE acc[k - 1].pc # "idle"

\* Message k arrives: timestamp_atual is taken and the record is read.
AcceptGet(k) ==
    /\ acc[k].pc = "idle"
    /\ PodeChegar(k)
    /\ acc' = [acc EXCEPT ![k] = [@ EXCEPT !.pc = "read",
                                           !.timestamp_atual = now,
                                           !.item = item]]
    /\ UNCHANGED <<now, fine, item, wk, dispatched, faults>>
    /\ UNCHANGED ledger

\* get_item raises.
AcceptGetFails(k) ==
    /\ acc[k].pc = "idle"
    /\ PodeChegar(k)
    /\ CanFail
    /\ faults' = faults + 1
    /\ acc' = [acc EXCEPT ![k] = AccErro([@ EXCEPT !.timestamp_atual = now])]
    /\ dispatched' = lambda_handler(k, acc'[k])
    /\ UNCHANGED <<now, fine, item, wk>>
    /\ UNCHANGED ledger

\* lambda_client.invoke(InvocationType='Event'): the invoked instance sleeps
\* delay_seconds from its start. A failed invoke is only logged.
agendar_processamento(k, timer_timestamp, delay_seconds, ok) ==
    IF ok
    THEN [wk EXCEPT ![k] = [pc |-> "sleeping",
                            timer_timestamp |-> timer_timestamp,
                            delay_seconds |-> delay_seconds,
                            started |-> now,
                            mensagens |-> <<>>]]
    ELSE wk

\* Variant: the new message replaces the list that was read.
PendingSoNova(it, k, timestamp_atual) ==
    <<PendingEntry(k, timestamp_atual)>>

\* pending_messages.append({...}) on the list that was read.
PendingAposAppend(it, k, timestamp_atual) ==
    Append(it.pending_messages, PendingEntry(k, timestamp_atual))

\* The record after update_item SET pending_messages, timer_timestamp.
ItemAposAppend(it, pending_messages, timestamp_atual) ==
    [it EXCEPT !.present = TRUE,
               !.pending_messages = pending_messages,
               !.timer_timestamp = timestamp_atual]

\* The record written by put_item.
ItemNovo(k, timestamp_atual) ==
    [present |-> TRUE,
     pending_messages |-> <<PendingEntry(k, timestamp_atual)>>,
     timer_timestamp |-> timestamp_atual,
     timer_active |-> TRUE]

\* Variant: a new batch is scheduled with the extension delay.
DelayInicialCurto == MESSAGE_EXTENSION_DELAY

\* The delay of the wakeup scheduled by each branch.
DelayExtensao == MESSAGE_EXTENSION_DELAY
DelayInicial == MESSAGE_ACCUMULATION_DELAY

\* Timer active in the record that was read: append and re-arm.
AcceptUpdate(k) ==
    /\ acc[k].pc = "read"
    /\ TimerAtivo(acc[k].item)
    /\ LET ts == acc[k].timestamp_atual
           pending_messages == PendingAposAppend(acc[k].item, k, ts)
       IN /\ item' = ItemAposAppend(item, pending_messages, ts)
          /\ \E ok \in BOOLEAN :
                /\ ok \/ CanFail
                /\ faults' = IF ok THEN faults ELSE faults + 1
                /\ wk' = agendar_processamento(k, ts, DelayExtensao, ok)
                /\ acc' = [acc EXCEPT ![k] =
                             AccOk(@, FALSE, Len(pending_messages), ok)]
    /\ dispatched' = lambda_handler(k, acc'[k])
    /\ UNCHANGED <<now, fine>>
    /\ UNCHANGED ledger

\* No active timer in the record that was read: start a new batch.
AcceptPut(k) ==
    /\ acc[k].pc = "read"
    /\ ~TimerAtivo(acc[k].item)
    /\ LET ts == acc[k].timestamp_atual
       IN /\ item' = ItemNovo(k, ts)
          /\ \E ok \in BOOLEAN :
                /\ ok \/ CanFail
                /\ faults' = IF ok THEN faults ELSE faults + 1
                /\ wk' = agendar_processamento(k, ts, DelayInicial, ok)
                /\ acc' = [acc EXCEPT ![k] = AccOk(@, TRUE, 1, ok)]
    /\ dispatched' = lambda_handler(k, acc'[k])
    /\ UNCHANGED <<now, fine>>
    /\ UNCHANGED ledger

\* update_item or put_item raises.
AcceptWriteFails(k) ==
    /\ acc[k].pc = "read"
    /\ CanFail
    /\ faults' = faults + 1
    /\ acc' = [acc EXCEPT ![k] = AccErro(@)]
    /\ dispatched' = lambda_handler(k, acc'[k])
    /\ UNCHANGED <<now, fine, item, wk>>
    /\ UNCHANGED ledger

\* ------------------------------------------------------------ Fire
WkReturn(w, mensagens) ==
    [w EXCEPT !.pc = "done", !.mensagens = mensagens, !.started = 0]

\* Variant: the timer comparison is skipped.
MensagensSemComparacao(it, timer_timestamp) ==
    IF ~it.present THEN <<>> ELSE it.pending_messages

\* What obter_e_limpar_mensagens_acumuladas decides from the record it read:
\* the batch to drain, or empty (no record, timer invalidated, nothing pending).
MensagensParaProcessar(it, timer_timestamp) ==
    IF ~it.present THEN <<>>
    ELSE IF TimerInvalidated(it, timer_timestamp) THEN <<>>
    ELSE it.pending_messages

\* The sleep is over: the wakeup reads the record.
FireGet(k) ==
    /\ wk[k].pc = "sleeping"
    /\ now >= Due(k)
    /\ LET mensagens == MensagensParaProcessar(item, wk[k].timer_timestamp)
       IN wk' = [wk EXCEPT ![k] =
                   IF mensagens = <<>>
                   THEN WkReturn(@, <<>>)
                   ELSE [@ EXCEPT !.pc = "read", !.mensagens = mensagens]]
    /\ UNCHANGED <<now, fine, item, acc, dispatched, faults>>
    /\ UNCHANGED ledger

\* get_item raises: the except branch returns [].
FireGetFails(k) ==
    /\ wk[k].pc = "sleeping"
    /\ now >= Due(k)
    /\ CanFail
    /\ faults' = faults + 1
    /\ wk' = [wk EXCEPT ![k] = WkReturn(@, <<>>)]
    /\ UNCHANGED <<now, fine, item, acc, dispatched>>
    /\ UNCHANGED ledger

\* The record after update_item SET pending_messages = [], timer_active = false
\* REMOVE timer_timestamp.
ItemLimpo(it) ==
    [it EXCEPT !.present = TRUE, !.pending_messages = <<>>,
               !.timer_active = FALSE, !.timer_timestamp = NoTimer]

\* The wakeup clears the record, returns the batch it read, and the handler
\* hands the combined message to processar_e_responder.
FireUpdate(k) ==
    /\ wk[k].pc = "read"
    /\ item' = ItemLimpo(item)
    /\ wk' = [wk EXCEPT ![k] = WkReturn(@, wk[k].mensagens)]
    /\ dispatched' = ProcessarLote(k, wk[k].mensagens)
    /\ UNCHANGED <<now, fine, acc, faults>>
    /\ UNCHANGED ledger

\* update_item raises: the except branch returns [].
FireUpdateFails(k) ==
    /\ wk[k].pc = "read"
    /\ CanFail
    /\ faults' = faults + 1
    /\ wk' = [wk EXCEPT ![k] = WkReturn(@, <<>>)]
    /\ UNCHANGED <<now, fine, item, acc, dispatched>>
    /\ UNCHANGED ledger

\* ------------------------------------------------------------ specification
Next ==
    \/ TickFine
    \/ TickToDue
    \/ \E k \in MsgIds : AcceptGet(k)
    \/ \E k \in MsgIds : AcceptGetFails(k)
    \/ \E k \in MsgIds : AcceptUpdate(k)
    \/ \E k \in MsgIds : AcceptPut(k)
    \/ \E k \in MsgIds : AcceptWriteFails(k)
    \/ \E k \in MsgIds : FireGet(k)
    \/ \E k \in MsgIds : FireGetFails(k)
    \/ \E k \in MsgIds : FireUpdate(k)
    \/ \E k \in MsgIds : FireUpdateFails(k)

Spec == Init /\ [][Next]_vars

\* ------------------------------------------------------------ the example
\* Two messages, the second ExemploIntervalo seconds after the first, then
\* ExemploSilencio seconds without any message; no collaborator fails. The
\* clock runs in 50 ms ticks and every invocation runs as soon as it is due.
ExemploTextos == <<Texto(1), Texto(2)>>
ExemploIntervalo == 2
ExemploSilencio == 12

Chegada(k) == Ticks(1) + (k - 1) * Ticks(ExemploIntervalo)
ExemploFim == Chegada(Len(ExemploTextos)) + Ticks(ExemploSilencio)

InitExemplo ==
    /\ now = Ticks(1)
    /\ item = NoItem
    /\ acc = [k \in MsgIds |-> AccIdle]
    /\ wk = [k \in MsgIds |-> WkNone]
    /\ dispatched = {}
    /\ faults = MaxFaults
    /\ fine = 0
    /\ LedgerInit

\* A message arrives now and has not been read yet.
ChegaAgora == \E k \in 1..Len(ExemploTextos) : acc[k].pc = "idle" /\ Chegada(k) = now

TickExemplo ==
    /\ now < ExemploFim
    /\ ~EmVoo
    /\ ~ChegaAgora
    /\ now' = now + 1
    /\ UNCHANGED <<fine, item, acc, wk, dispatched, faults>>
    /\ UNCHANGED ledger

AcceptGetExemplo(k) ==
    /\ k <= Len(ExemploTextos)
    /\ now = Chegada(k)
    /\ AcceptGet(k)

NextExemplo ==
    \/ TickExemplo
    \/ \E k \in MsgIds : AcceptGetExemplo(k)
    \/ \E k \in MsgIds : AcceptUpdate(k)
    \/ \E k \in MsgIds : AcceptPut(k)
    \/ \E k \in MsgIds : FireGet(k)
    \/ \E k \in MsgIds : FireUpdate(k)

SpecExemplo == InitExemplo /\ [][NextExemplo]_vars

\* ------------------------------------------------------------ the passes
\* The debounce path; the passes over the ledger leave it alone.
debounce == <<item, acc, wk, dispatched, fine>>

\* What a call of processar_e_responder leaves alone.
alheio == <<item, acc, wk, dispatched, fine, renov, tel, lote, copias>>

\* The run starts at minute 55 of an hour.
InitNegociacao ==
    /\ now = Ticks(55 * 60)
    /\ item = NoItem
    /\ acc = [k \in MsgIds |-> AccIdle]
    /\ wk = [k \in MsgIds |-> WkNone]
    /\ dispatched = {}
    /\ faults = 0
    /\ fine = 0
    /\ LedgerInit

\* The time that passes between two passes: ten minutes, fifty minutes (the
\* two add up to the session window), one second less than the session
\* window, the memory window and one second less.
Duracoes ==
    {Ticks(10 * 60), Ticks(50 * 60), Ticks(SESSION_TIMEOUT - 1),
     Ticks(MEMORY_TIMEOUT - 1), Ticks(MEMORY_TIMEOUT)}

\* A ledger write of the pass can fail: one has failed already, or another
\* pass with failing writes is within the bound.
LedgerPodeFalhar == passo.falhou > 0 \/ faults < MaxFalhasLedger
\* The passes with failing writes after a write of this pass that went `ok`.
FalhasApos(ok) == IF ok \/ passo.falhou > 0 THEN faults ELSE faults + 1

\* Time passes between a pass and the next message of the correspondent.
Salto ==
    /\ passo.pc = "fim"
    /\ passo.n < MaxPassos
    /\ \E d \in Duracoes : now' = now + d
    /\ passo' = [passo EXCEPT !.pc = "idle"]
    /\ UNCHANGED <<negociacao, escritas, faults>>
    /\ UNCHANGED debounce
    /\ UNCHANGED despacho

\* processar_com_chatbot: session_id, session_renewed =
\* _get_or_create_session_id(cod_conversa).
SessaoPasso ==
    /\ passo.pc = "idle"
    /\ passo.n < MaxPassos
    /\ \E ok \in BOOLEAN :
          /\ ok \/ (LedgerPodeFalhar /\ RamoSessao(negociacao, now) # "reusa")
          /\ faults' = FalhasApos(ok)
          /\ LET r == _get_or_create_session_id(negociacao, now, ok)
             IN /\ negociacao' = r.tabela
                /\ passo' = [pc |-> "memoria", n |-> passo.n + 1,
                             ramo |-> r.ramo,
                             session_id |-> r.session_id,
                             session_renewed |-> r.session_renewed,
                             ramo_memoria |-> "",
                             tempo_memoria |-> Ausente,
                             memoria_antes |->
                                 _get_memory_timestamp_from_negociacao(negociacao),
                             inicio |-> now,
                             falhou |-> IF ok THEN 0 ELSE 1,
                             seguidos |->
                                 /\ passo.seguidos
                                 /\ passo.n > 0 => now - passo.inicio
                                                      < Ticks(SESSION_TIMEOUT),
                             seguidos_mem |->
                                 /\ passo.seguidos_mem
                                 /\ passo.n > 0 => now - passo.inicio
                                                      < Ticks(MEMORY_TIMEOUT)]
    /\ UNCHANGED <<now, escritas>>
    /\ UNCHANGED debounce
    /\ UNCHANGED despacho

\* processar_com_chatbot: memory_id = _get_or_create_memory_id(cod_conversa).
\* The call reads the clock after the session call did: one tick later.
MemoriaPasso ==
    /\ passo.pc = "memoria"
    /\ now' = now + 1
    /\ \E ok \in BOOLEAN :
          /\ ok \/ (LedgerPodeFalhar /\ RamoMemoria(negociacao, now') # "reusa")
          /\ faults' = FalhasApos(ok)
          /\ LET r == _get_or_create_memory_id(negociacao, now', ok)
             IN /\ negociacao' = r.tabela
                /\ passo' = [passo EXCEPT !.pc = "agente",
                                          !.ramo_memoria = r.ramo,
                                          !.tempo_memoria = r.tempo_memoria,
                                          !.falhou = IF ok THEN passo.falhou
                                                     ELSE passo.falhou + 1]
    /\ UNCHANGED escritas
    /\ UNCHANGED debounce
    /\ UNCHANGED despacho

\* The offers reach the correspondent one after the other: the cargo id of the
\* next one is the first that the ledger does not hold yet, or the last one.
OfertaSeguinte ==
    IF \E r \in negociacao : r.attrs["carga_id"] = 42 THEN 43 ELSE 42

\* process_driver, which invoked the pass to hand the offer to the agent,
\* stores the cargo id of the offer once the lifecycle calls of the pass have
\* run.
SalvarCarga(carga_id) ==
    /\ passo.pc = "agente"
    /\ escritas < MaxEscritas
    /\ carga_id = OfertaSeguinte
    /\ negociacao' = salvar_carga_id_na_negociacao(negociacao, now, carga_id)
    /\ escritas' = escritas + 1
    /\ UNCHANGED <<now, passo, faults>>
    /\ UNCHANGED debounce
    /\ UNCHANGED despacho

\* The agent calls the action group that verifies and stores the vehicle.
SalvarVeiculos(veiculo_id, equipamento_ids) ==
    /\ passo.pc = "agente"
    /\ escritas < MaxEscritas
    /\ negociacao' = _salvar_veiculos_motorista(negociacao, now, veiculo_id,
                                                equipamento_ids)
    /\ escritas' = escritas + 1
    /\ UNCHANGED <<now, passo, faults>>
    /\ UNCHANGED debounce
    /\ UNCHANGED despacho

\* The agent has answered: the pass is over. What it returned to the
\* correspondent's conversation stays known: its pointers and its instant.
FimPasso ==
    /\ passo.pc = "agente"
    /\ passo' = [PassoIdle EXCEPT !.pc = "fim",
                                   !.n = passo.n,
                                   !.session_id = passo.session_id,
                                   !.tempo_memoria = passo.tempo_memoria,
                                   !.inicio = passo.inicio,
                                   !.seguidos = passo.seguidos,
                                   !.seguidos_mem = passo.seguidos_mem]
    /\ UNCHANGED <<now, negociacao, escritas, faults>>
    /\ UNCHANGED debounce
    /\ UNCHANGED despacho

NextNegociacao ==
    \/ Salto
    \/ SessaoPasso
    \/ MemoriaPasso
    \/ \E c \in CargaIds : SalvarCarga(c)
    \/ \E v \in VeiculoIds, e \in EquipamentoIds : SalvarVeiculos(v, e)
    \/ FimPasso

SpecNegociacao == InitNegociacao /\ [][NextNegociacao]_vars

\* ------------------------------------------------------------ the chatbot
\* The Lambda "chatbot" that processar_com_chatbot invokes
\* (src/Cursor/User/History/-6ab34fe6/Nwmb.py) runs its own copy of the
\* lifecycle on the same table before it invokes the agent.

\* Its _save_session_timestamp_to_negociacao: put_item of the key, the pointer
\* and, when one is given, the start instant. Nothing is inherited.
chatbot_save_session_timestamp_to_negociacao(tabela, tempo_sessao, session_id, negociacao_iniciada_em, ok) ==
    IF ok
    THEN PutItem(tabela,
             [tempo_sessao |-> tempo_sessao,
              attrs |-> [SemAtributos EXCEPT
                            !["session_id"] = session_id,
                            !["negociacao_iniciada_em"] = negociacao_iniciada_em]])
    ELSE tabela

\* The branch its _get_or_create_session_id takes at instant t; "ilegivel" is
\* the except branch around the computation of the age.
chatbot_RamoSessao(tabela, t) ==
    LET existing == _get_session_timestamp_from_negociacao(tabela)
        session_age_seconds ==
            _parse_timestamp_to_unix(t) - _parse_timestamp_to_unix(existing.session_id)
    IN IF ~existing.achou \/ existing.session_id = Ausente THEN "cria"
       ELSE IF existing.session_id = Ilegivel THEN "ilegivel"
       ELSE IF session_age_seconds < SESSION_TIMEOUT
            THEN IF existing.tempo_sessao = current_tempo_sessao(t)
                 THEN "reusa" ELSE "roda"
            ELSE "renova"

\* Its _get_or_create_session_id at instant t: the pointer it returns and the
\* table it leaves. The rotation stores no start instant.
chatbot_get_or_create_session_id(tabela, t, ok) ==
    LET ramo == chatbot_RamoSessao(tabela, t)
        existing_session_id == _get_session_timestamp_from_negociacao(tabela).session_id
        session_id == IF ramo \in {"reusa", "roda"} THEN existing_session_id ELSE t
    IN [ramo |-> ramo,
        session_id |-> session_id,
        tabela |-> IF ramo = "reusa" THEN tabela
                   ELSE chatbot_save_session_timestamp_to_negociacao(
                            tabela, current_tempo_sessao(t), session_id,
                            IF ramo = "roda" THEN Ausente ELSE t, ok)]

\* Its _get_or_create_memory_id at instant t: the branch, whether the call
\* raises (the age of a timestamp that is not valid is computed outside any
\* try), the tempo_memoria of the memory id and the table it leaves.
chatbot_get_or_create_memory_id(tabela, t, ok) ==
    LET existing_tempo_memoria == _get_memory_timestamp_from_negociacao(tabela)
        ramo == RamoMemoria(tabela, t)
    IN IF existing_tempo_memoria = Ilegivel
       THEN [ramo |-> ramo, levanta |-> TRUE, tempo_memoria |-> Ausente,
             tabela |-> tabela]
       ELSE IF ramo = "reusa"
       THEN [ramo |-> ramo, levanta |-> FALSE,
             tempo_memoria |-> existing_tempo_memoria, tabela |-> tabela]
       ELSE [ramo |-> ramo, levanta |-> FALSE, tempo_memoria |-> t,
             tabela |-> _save_memory_timestamp_to_negociacao(tabela, t, t, ok)]

\* The answer of the chatbot Lambda's lambda_handler invoked at instant t:
\* both lifecycle calls, then _invoke_agent, which answers when agente_ok and
\* raises otherwise. Every exception becomes the status "error".
chatbot_lambda_handler(tabela, t, ok_sessao, ok_memoria, agente_ok) ==
    LET sessao == chatbot_get_or_create_session_id(tabela, t, ok_sessao)
        memoria == chatbot_get_or_create_memory_id(sessao.tabela, t, ok_memoria)
    IN [status |-> IF memoria.levanta \/ ~agente_ok THEN "error" ELSE "success",
        session_id |-> sessao.session_id,
        tempo_memoria |-> memoria.tempo_memoria,
        gravou_sessao |-> sessao.ramo # "reusa",
        gravou_memoria |-> ~memoria.levanta /\ memoria.ramo # "reusa",
        tabela |-> memoria.tabela]

\* ------------------------------------------------------------ the dispatch
\* The time between two calls of processar_e_responder: ten minutes or the
\* session window.
DuracoesDespacho == {Ticks(10 * 60), Ticks(SESSION_TIMEOUT)}

\* A collaborator call of the dispatch under way has failed already.
DespachoFalhou == desp.pc # "idle" /\ (desp.falhas # {} \/ passo.falhou > 0)

\* One more collaborator call of the dispatch can fail.
CanalPodeFalhar == faults < MaxFalhasCanal

\* The lifecycle and the rebuilding of the context can fail together in one
\* dispatch: the bound counts such a dispatch once.
ContextoPodeFalhar == DespachoFalhou \/ CanalPodeFalhar
FalhasDoCanal(falhou) == IF falhou /\ ~DespachoFalhou THEN faults + 1 ELSE faults

\* The two sentences that processar_e_responder sends: the agent's answer and
\* the one that stands in for it when the chatbot reports an error.
Resposta == "resposta"
Indisponivel ==
    "Estamos tendo alguns problemas de disponibilidade por agora, envie mensagem daqui a pouco"

\* save_driver_message and save_chatbot_response: one more entry of the log.
save_driver_message(log, n) == Append(log, [quem |-> "motorista", n |-> n])
save_chatbot_response(log, n, texto) ==
    Append(log, [quem |-> "assistente", n |-> n, texto |-> texto])

\* build_context_from_history: a digest of the turns in the log, none ("")
\* when the log is empty.
build_context_from_history(log) == IF log = <<>> THEN "" ELSE "historico"

\* The run starts at minute 55 of an hour with an empty ledger and no call
\* under way.
InitDespacho ==
    /\ now = Ticks(55 * 60)
    /\ item = NoItem
    /\ acc = [k \in MsgIds |-> AccIdle]
    /\ wk = [k \in MsgIds |-> WkNone]
    /\ dispatched = {}
    /\ faults = 0
    /\ fine = 0
    /\ negociacao = {}
    /\ passo = [PassoIdle EXCEPT !.pc = "fim"]
    /\ escritas = 0
    /\ desp = DespIdle
    /\ historico = <<>>
    /\ renov = SemRenovacao
    /\ tel = SemTelefone
    /\ lote = SemLote
    /\ copias = SemCopias

\* A call of processar_e_responder can begin: none is under way and the time
\* since the one before has passed.
PodeEntrar ==
    /\ desp.pc = "idle"
    /\ passo.pc = "fim"
    /\ passo.n < MaxPassos

Espera ==
    IF desp.n = 0 THEN now' = now ELSE \E d \in DuracoesDespacho : now' = now + d

\* The call that begins: its number, its handler and its flag.
DespNovo(origem, from_sse, restantes, sem_registro) ==
    [DespIdle EXCEPT !.pc = "processar", !.n = desp.n + 1, !.origem = origem,
                     !.from_sse = from_sse, !.restantes = restantes,
                     !.sem_registro = sem_registro]

\* processar_mensagens_acumuladas_handler with a batch: the combined message is
\* stored in the history log (a failure is only logged) and handed to
\* processar_e_responder.
HandlerDoLote ==
    /\ PodeEntrar
    /\ desp.restantes = 0
    /\ \E ok \in BOOLEAN :
          /\ ok \/ CanalPodeFalhar
          /\ faults' = IF ok THEN faults ELSE faults + 1
          /\ historico' = IF ok THEN save_driver_message(historico, desp.n + 1)
                          ELSE historico
          /\ desp' = DespNovo("lote", FALSE, 0, ~ok)
    /\ passo' = [passo EXCEPT !.pc = "idle"]
    /\ UNCHANGED <<negociacao, escritas>>
    /\ UNCHANGED alheio

\* A batch fires some time after the call before.
EntradaLote == Espera /\ HandlerDoLote

\* lambda_handler when armazenar_mensagem_pendente answers deve_processar: the
\* message goes to processar_e_responder with the from_sse flag of the event.
EntradaDireta(from_sse) ==
    /\ PodeEntrar
    /\ desp.restantes = 0
    /\ Espera
    /\ desp' = DespNovo("direto", from_sse, 0, TRUE)
    /\ passo' = [passo EXCEPT !.pc = "idle"]
    /\ UNCHANGED <<negociacao, escritas, faults, historico>>
    /\ UNCHANGED alheio

\* handle_sse_to_websocket_transition, one unread message: it is stored in the
\* history log and handed to processar_e_responder, the first one with
\* from_sse. When the log cannot be written the message is skipped.
MensagemNaoLida(primeira, restantes) ==
    \E ok \in BOOLEAN :
        /\ ok \/ CanalPodeFalhar
        /\ faults' = IF ok THEN faults ELSE faults + 1
        /\ historico' = IF ok THEN save_driver_message(historico, desp.n + 1)
                        ELSE historico
        /\ desp' = IF ok THEN DespNovo("sse", primeira, restantes, FALSE)
                   ELSE [DespNovo("sse", primeira, restantes, TRUE)
                            EXCEPT !.pc = "idle", !.falhas = {"historico"}]
        /\ passo' = IF ok THEN [passo EXCEPT !.pc = "idle"]
                    ELSE [passo EXCEPT !.n = passo.n + 1]

\* The transition begins with `unread` unread messages.
EntradaSse(unread) ==
    /\ PodeEntrar
    /\ desp.restantes = 0
    /\ Espera
    /\ MensagemNaoLida(TRUE, unread - 1)
    /\ UNCHANGED <<negociacao, escritas>>
    /\ UNCHANGED alheio

\* The transition goes on with its next unread message.
SseSeguinte ==
    /\ PodeEntrar
    /\ desp.restantes > 0
    /\ MensagemNaoLida(FALSE, desp.restantes - 1)
    /\ UNCHANGED <<now, negociacao, escritas>>
    /\ UNCHANGED alheio

\* The stored pointer, or the stored memory timestamp, cannot be parsed.
SessaoIlegivel ==
    _get_session_timestamp_from_negociacao(negociacao).session_id = Ilegivel
MemoriaIlegivel == _get_memory_timestamp_from_negociacao(negociacao) = Ilegivel

\* The except branch of processar_e_responder: the exception is logged and
\* the handler returns 500.
ProcessarLevanta(falha) ==
    [desp EXCEPT !.pc = "idle", !.falhas = @ \cup {falha}, !.statusCode = 500]

\* processar_com_chatbot calls _get_or_create_session_id.
DespSessao ==
    /\ desp.pc = "processar"
    /\ ~SessaoIlegivel
    /\ SessaoPasso
    /\ faults' = faults \/ faults' <= MaxFalhasCanal

\* The same call when the query of _get_previous_negotiation_data fails: the
\* except branch returns {} and the item is stored without inherited data,
\* when put_item does not fail as well.
DespSessaoSemHeranca ==
    /\ desp.pc = "processar"
    /\ passo.pc = "idle"
    /\ ~SessaoIlegivel
    /\ RamoSessao(negociacao, now) # "reusa"
    /\ CanalPodeFalhar
    /\ faults' = FalhasDoCanal(TRUE)
    /\ \E ok \in BOOLEAN :
        LET r == _get_or_create_session_id(negociacao, now, ok)
        IN /\ negociacao' =
                 IF ok
                 THEN PutItem(negociacao,
                              ItemSessao({}, now, current_tempo_sessao(now),
                                         r.session_id, now))
                 ELSE negociacao
           /\ passo' = [passo EXCEPT !.pc = "memoria", !.n = passo.n + 1,
                                     !.ramo = r.ramo,
                                     !.session_id = r.session_id,
                                     !.session_renewed = r.session_renewed,
                                     !.memoria_antes =
                                         _get_memory_timestamp_from_negociacao(negociacao),
                                     !.inicio = now,
                                     !.falhou = IF ok THEN 0 ELSE 1]
    /\ desp' = [desp EXCEPT !.falhas = @ \cup {"heranca"}]
    /\ UNCHANGED <<now, escritas, historico>>
    /\ UNCHANGED alheio

\* The same call when the stored pointer cannot be parsed: the age is computed
\* outside any try, the ValueError leaves processar_com_chatbot.
SessaoLevanta ==
    /\ desp.pc = "processar"
    /\ passo.pc = "idle"
    /\ SessaoIlegivel
    /\ desp' = ProcessarLevanta("sessao_ilegivel")
    /\ passo' = [passo EXCEPT !.pc = "fim", !.n = passo.n + 1, !.inicio = now]
    /\ UNCHANGED <<now, negociacao, escritas, faults, historico>>
    /\ UNCHANGED alheio

\* processar_com_chatbot calls _get_or_create_memory_id.
DespMemoria ==
    /\ desp.pc = "processar"
    /\ ~MemoriaIlegivel
    /\ MemoriaPasso
    /\ faults' = faults \/ faults' <= MaxFalhasCanal

\* The same call when the stored memory timestamp cannot be parsed:
\* _is_memory_valid answers False and the age of the expired memory is then
\* computed outside any try.
MemoriaLevanta ==
    /\ desp.pc = "processar"
    /\ passo.pc = "memoria"
    /\ MemoriaIlegivel
    /\ desp' = ProcessarLevanta("memoria_ilegivel")
    /\ passo' = [passo EXCEPT !.pc = "fim"]
    /\ UNCHANGED <<now, negociacao, escritas, faults, historico>>
    /\ UNCHANGED alheio

\* The calls of the rest of processar_com_chatbot that can fail, given that
\* the context is rebuilt or not: build_context_from_history,
\* lambda_client.invoke, the two ledger writes of the chatbot Lambda and its
\* invocation of the agent.
FalhasDoChatbot(reconstroi, t) ==
    {""} \cup
    (IF reconstroi /\ ContextoPodeFalhar THEN {"reconstrucao"} ELSE {}) \cup
    (IF ~CanalPodeFalhar THEN {}
     ELSE {"invoke", "agente"}
          \cup (IF chatbot_RamoSessao(negociacao, t) # "reusa"
                THEN {"chatbot_sessao"} ELSE {})
          \cup (IF chatbot_get_or_create_memory_id(
                       chatbot_get_or_create_session_id(negociacao, t, TRUE).tabela,
                       t, TRUE).ramo # "reusa"
                THEN {"chatbot_memoria"} ELSE {}))

\* A variant that rebuilds the context after every renewal.
ReconstroiSempre(session_renewed, from_sse) == session_renewed

\* processar_com_chatbot: "if session_renewed and from_sse".
Reconstroi(session_renewed, from_sse) == session_renewed /\ from_sse

\* The rest of processar_com_chatbot: the pointer goes into the message, the
\* context is rebuilt from the history log when the session was renewed on a
\* channel transition, and the chatbot Lambda is invoked and runs. An
\* exception of the invocation leaves processar_com_chatbot.
InvocaChatbot ==
    /\ desp.pc = "processar"
    /\ passo.pc = "agente"
    /\ now' = now + 1
    /\ LET reconstroi == Reconstroi(passo.session_renewed, desp.from_sse)
       IN \E falha \in FalhasDoChatbot(reconstroi, now') :
            LET history_context ==
                    IF reconstroi /\ falha # "reconstrucao"
                    THEN build_context_from_history(historico) ELSE ""
                r == chatbot_lambda_handler(negociacao, now',
                                            falha # "chatbot_sessao",
                                            falha # "chatbot_memoria",
                                            falha # "agente")
                d == [desp EXCEPT !.falhas =
                                      @ \cup (IF falha # "" THEN {falha} ELSE {})
                                        \cup (IF passo.falhou > 0
                                              THEN {"escrita"} ELSE {}),
                                  !.reconstruiu = reconstroi,
                                  !.contexto = history_context # "",
                                  !.codConversa = passo.session_id]
            IN /\ faults' = IF falha = "reconstrucao"
                            THEN FalhasDoCanal(TRUE)
                            ELSE IF falha = "" THEN faults ELSE faults + 1
               /\ IF falha = "invoke"
                  THEN /\ negociacao' = negociacao
                       /\ desp' = [ProcessarLevanta(falha) EXCEPT
                                      !.falhas = d.falhas,
                                      !.reconstruiu = d.reconstruiu,
                                      !.contexto = d.contexto,
                                      !.codConversa = d.codConversa,
                                      !.agente = "raise"]
                  ELSE /\ negociacao' = r.tabela
                       /\ desp' = [d EXCEPT !.pc = "responder",
                                            !.agente = r.status]
    /\ passo' = [PassoIdle EXCEPT !.pc = "fim",
                                   !.n = passo.n,
                                   !.session_id = passo.session_id,
                                   !.session_renewed = passo.session_renewed,
                                   !.tempo_memoria = passo.tempo_memoria,
                                   !.inicio = passo.inicio,
                                   !.seguidos = passo.seguidos,
                                   !.seguidos_mem = passo.seguidos_mem]
    /\ UNCHANGED <<escritas, historico>>
    /\ UNCHANGED alheio

\* The rest of processar_e_responder: the sentence for the correspondent is
\* chosen, the correspondent's record is queried for the audio preference
\* (an exception reaches the except branch), the sentence goes to the
\* delivery gateway and, when the gateway accepts it, into the history log
\* (a failure of the log is only logged).
Responde ==
    /\ desp.pc = "responder"
    /\ LET texto == IF desp.agente = "error" THEN Indisponivel ELSE Resposta
       IN \E falha \in {"", "consulta", "envio", "registro"} :
            /\ falha = "" \/ CanalPodeFalhar
            /\ faults' = IF falha = "" THEN faults ELSE faults + 1
            /\ desp' =
                 IF falha = "consulta" THEN ProcessarLevanta(falha)
                 ELSE IF falha = "envio"
                 THEN [desp EXCEPT !.pc = "idle", !.falhas = @ \cup {falha},
                                   !.texto = texto, !.statusCode = 500]
                 ELSE [desp EXCEPT !.pc = "idle",
                                   !.falhas =
                                       @ \cup (IF falha # "" THEN {falha} ELSE {}),
                                   !.texto = texto, !.entregue = TRUE,
                                   !.registrada = (falha = ""),
                                   !.statusCode = 200]
            /\ historico' =
                 IF falha = ""
                 THEN save_chatbot_response(historico, desp.n, texto)
                 ELSE historico
    /\ UNCHANGED <<now, negociacao, passo, escritas>>
    /\ UNCHANGED alheio

NextDespacho ==
    \/ EntradaLote
    \/ \E from_sse \in BOOLEAN : EntradaDireta(from_sse)
    \/ \E unread \in 1..2 : EntradaSse(unread)
    \/ SseSeguinte
    \/ DespSessao
    \/ DespSessaoSemHeranca
    \/ DespMemoria
    \/ InvocaChatbot
    \/ Responde

SpecDespacho == InitDespacho /\ [][NextDespacho]_vars

\* -------------------------------------------------- the legacy records
\* The instant that the legible timestamps of a legacy item hold.
InstanteLegado == Ticks(50 * 60)

\* The items that an earlier version left for the correspondent, with a
\* session pointer or a memory timestamp in a format that
\* _parse_timestamp_to_unix does not read (_normalize_tempo_memoria_to_iso keeps a
\* timestamp of unknown format as it is).
ItensLegados ==
    {[tempo_sessao |-> current_tempo_sessao(InstanteLegado),
      attrs |-> [SemAtributos EXCEPT !["session_id"] = s,
                                     !["negociacao_iniciada_em"] = InstanteLegado,
                                     !["tempo_memoria"] = m]] :
        <<s, m>> \in {<<Ilegivel, InstanteLegado>>, <<InstanteLegado, Ilegivel>>,
                      <<Ilegivel, Ilegivel>>}}

\* The run starts at minute 55 of the hour of a legacy item, the only item of
\* the correspondent.
InitLegado ==
    /\ now = Ticks(55 * 60)
    /\ item = NoItem
    /\ acc = [k \in MsgIds |-> AccIdle]
    /\ wk = [k \in MsgIds |-> WkNone]
    /\ dispatched = {}
    /\ faults = 0
    /\ fine = 0
    /\ \E r \in ItensLegados : negociacao = {r}
    /\ passo = [PassoIdle EXCEPT !.pc = "fim"]
    /\ escritas = 0
    /\ desp = DespIdle
    /\ historico = <<>>
    /\ renov = SemRenovacao
    /\ tel = SemTelefone
    /\ lote = SemLote
    /\ copias = SemCopias

NextLegado ==
    \/ EntradaLote
    \/ \E from_sse \in BOOLEAN : EntradaDireta(from_sse)
    \/ \E unread \in 1..2 : EntradaSse(unread)
    \/ SseSeguinte
    \/ DespSessao
    \/ DespSessaoSemHeranca
    \/ SessaoLevanta
    \/ DespMemoria
    \/ MemoriaLevanta
    \/ InvocaChatbot
    \/ Responde

SpecLegado == InitLegado /\ [][NextLegado]_vars

\* ------------------------------------------------------------ the batches
\* The debounce path together with the dispatch of the batches it fires; no
\* collaborator fails.
InitLote ==
    /\ now = Ticks(1)
    /\ item = NoItem
    /\ acc = [k \in MsgIds |-> AccIdle]
    /\ wk = [k \in MsgIds |-> WkNone]
    /\ dispatched = {}
    /\ faults = MaxFaults + MaxFalhasCanal
    /\ fine = 0
    /\ negociacao = {}
    /\ passo = [PassoIdle EXCEPT !.pc = "fim"]
    /\ escritas = 0
    /\ desp = DespIdle
    /\ historico = <<>>
    /\ renov = SemRenovacao
    /\ tel = SemTelefone
    /\ lote = SemLote
    /\ copias = SemCopias

\* The handler of a wakeup that drained a batch goes on with the batch: the
\* batches are dispatched one after the other.
LoteDisparado ==
    /\ desp.n < Cardinality(dispatched)
    /\ now' = now
    /\ HandlerDoLote

\* Every batch that fired has been dispatched and answered. A dispatch runs to
\* its end before the debounce path takes its next step.
SemDespacho == desp.pc = "idle" /\ desp.n = Cardinality(dispatched)

NextLote ==
    \/ SemDespacho /\ TickFine
    \/ SemDespacho /\ TickToDue
    \/ \E k \in MsgIds : SemDespacho /\ AcceptGet(k)
    \/ \E k \in MsgIds : SemDespacho /\ AcceptUpdate(k)
    \/ \E k \in MsgIds : SemDespacho /\ AcceptPut(k)
    \/ \E k \in MsgIds : SemDespacho /\ FireGet(k)
    \/ \E k \in MsgIds : SemDespacho /\ FireUpdate(k)
    \/ LoteDisparado
    \/ DespSessao
    \/ DespMemoria
    \/ InvocaChatbot
    \/ Responde

SpecLote == InitLote /\ [][NextLote]_vars

\* ------------------------------------------------ the concurrent passes
\* Two invocations process messages of one correspondent at the same time:
\* each runs _get_or_create_session_id and _get_or_create_memory_id, one
\* DynamoDB call at a time.
Passes == {1, 2}

\* The run starts one tick before an hour turns, later than the memory window.
InicioConcorrente == Ticks(MEMORY_TIMEOUT + 2 * SegundosPorHora) - 1

\* The pointer of the latest item was minted ten minutes before the hour of
\* the start began: it is older than the session window.
PonteiroAnterior ==
    InicioConcorrente + 1 - Ticks(SegundosPorHora) - Ticks(10 * 60)

\* A memory timestamp older than the memory window.
MemoriaVencida == Ticks(1)

\* The latest item of the correspondent at the start: written by the pass
\* that minted the pointer or by a later pass that carried the pointer into
\* the hour of the start, with or without a cargo, a vehicle without
\* equipment and a memory timestamp, valid or expired.
ItensAnteriores ==
    {[tempo_sessao |-> current_tempo_sessao(k),
      attrs |-> [SemAtributos EXCEPT
                    !["session_id"] = PonteiroAnterior,
                    !["negociacao_iniciada_em"] = k,
                    !["tempo_memoria"] = m,
                    !["carga_id"] = c,
                    !["veiculo_cavalo_id"] = IF v THEN 7 ELSE Ausente,
                    !["equipamento_ids"] = IF v THEN Vazio ELSE Ausente,
                    !["veiculos_updated_at"] =
                        IF v THEN PonteiroAnterior + 1 ELSE Ausente]] :
        k \in {PonteiroAnterior, PonteiroAnterior + Ticks(10 * 60)},
        m \in {Ausente, PonteiroAnterior, MemoriaVencida},
        c \in {Ausente, 42},
        v \in BOOLEAN}

\* pc is the call that the pass makes next; visto, lido and recente are the
\* answers of its three queries of the latest item (the table as it was then);
\* t is its clock reading; ramo, session_id and tempo_memoria are what the two
\* lifecycle calls decide and return.
RenovIdle ==
    [pc |-> "inicio", visto |-> {}, t |-> Ausente, ramo |-> "",
     session_id |-> Ausente, lido |-> {}, recente |-> {},
     tempo_memoria |-> Ausente]

InitConcorrente ==
    /\ now = InicioConcorrente
    /\ item = NoItem
    /\ acc = [k \in MsgIds |-> AccIdle]
    /\ wk = [k \in MsgIds |-> WkNone]
    /\ dispatched = {}
    /\ faults = 0
    /\ fine = 0
    /\ \E r \in ItensAnteriores : negociacao = {r}
    /\ passo = [PassoIdle EXCEPT !.pc = "fim"]
    /\ escritas = 0
    /\ desp = DespIdle
    /\ historico = <<>>
    /\ renov = [p \in Passes |-> RenovIdle]
    /\ tel = SemTelefone
    /\ lote = SemLote
    /\ copias = SemCopias

\* What the lifecycle calls of a concurrent pass leave alone.
foraDaRenovacao == <<item, acc, wk, dispatched, fine, faults, passo, escritas, desp, historico, tel, lote, copias>>

\* Time passes while a pass is under way.
Avanca ==
    /\ now < InicioConcorrente + MaxAvancos
    /\ \E p \in Passes : renov[p].pc # "fim"
    /\ now' = now + 1
    /\ UNCHANGED <<negociacao, renov>>
    /\ UNCHANGED foraDaRenovacao

\* _get_or_create_session_id: the query of the latest item, the clock and the
\* branch; a pointer that is reused under its own hour is returned at once.
LerSessao(p) ==
    /\ renov[p].pc = "inicio"
    /\ LET r == _get_or_create_session_id(negociacao, now, TRUE)
       IN renov' = [renov EXCEPT ![p] =
                       [@ EXCEPT !.pc = IF r.ramo = "reusa" THEN "memoria"
                                        ELSE "heranca",
                                 !.visto = negociacao,
                                 !.t = now,
                                 !.ramo = r.ramo,
                                 !.session_id = r.session_id]]
    /\ UNCHANGED <<now, negociacao>>
    /\ UNCHANGED foraDaRenovacao

\* _save_session_timestamp_to_negociacao: the query of
\* _get_previous_negotiation_data.
LerHeranca(p) ==
    /\ renov[p].pc = "heranca"
    /\ renov' = [renov EXCEPT ![p] = [@ EXCEPT !.pc = "grava",
                                               !.lido = negociacao]]
    /\ UNCHANGED <<now, negociacao>>
    /\ UNCHANGED foraDaRenovacao

\* _save_session_timestamp_to_negociacao: put_item of the item built from the
\* data that was read, under the hour of the clock reading.
GravaSessao(p) ==
    /\ renov[p].pc = "grava"
    /\ negociacao' =
          PutItem(negociacao,
                  ItemSessao(renov[p].lido, now, current_tempo_sessao(renov[p].t),
                             renov[p].session_id, renov[p].t))
    /\ renov' = [renov EXCEPT ![p] = [@ EXCEPT !.pc = "memoria"]]
    /\ UNCHANGED now
    /\ UNCHANGED foraDaRenovacao

\* _get_or_create_memory_id: the query of the latest item's memory timestamp;
\* a valid one is returned at once, otherwise one is minted.
LerMemoria(p) ==
    /\ renov[p].pc = "memoria"
    /\ LET m == _get_or_create_memory_id(negociacao, now, TRUE)
       IN renov' = [renov EXCEPT ![p] =
                       [@ EXCEPT !.pc = IF m.ramo = "reusa" THEN "fim"
                                        ELSE "sessao_da_memoria",
                                 !.tempo_memoria = m.tempo_memoria]]
    /\ UNCHANGED <<now, negociacao>>
    /\ UNCHANGED foraDaRenovacao

\* _save_memory_timestamp_to_negociacao: the query of the latest item's key.
LerSessaoDaMemoria(p) ==
    /\ renov[p].pc = "sessao_da_memoria"
    /\ renov' = [renov EXCEPT ![p] = [@ EXCEPT !.pc = "grava_memoria",
                                               !.recente = negociacao]]
    /\ UNCHANGED <<now, negociacao>>
    /\ UNCHANGED foraDaRenovacao

\* _save_memory_timestamp_to_negociacao: update_item of the item with the key
\* that was read, or put_item of a fresh item when no item had a pointer.
GravaMemoria(p) ==
    /\ renov[p].pc = "grava_memoria"
    /\ LET recente == _get_session_timestamp_from_negociacao(renov[p].recente)
       IN negociacao' =
            IF ~recente.achou \/ recente.session_id = Ausente
            THEN PutItem(negociacao,
                    [tempo_sessao |-> current_tempo_sessao(now),
                     attrs |-> [SemAtributos EXCEPT
                                   !["session_id"] = now,
                                   !["tempo_memoria"] = renov[p].tempo_memoria,
                                   !["negociacao_iniciada_em"] = now]])
            ELSE UpdateItem(negociacao, recente.tempo_sessao,
                    [SemAtributos EXCEPT
                        !["tempo_memoria"] = renov[p].tempo_memoria])
    /\ renov' = [renov EXCEPT ![p] = [@ EXCEPT !.pc = "fim"]]
    /\ UNCHANGED now
    /\ UNCHANGED foraDaRenovacao

NextConcorrente ==
    \/ Avanca
    \/ \E p \in Passes : LerSessao(p)
    \/ \E p \in Passes : LerHeranca(p)
    \/ \E p \in Passes : GravaSessao(p)
    \/ \E p \in Passes : LerMemoria(p)
    \/ \E p \in Passes : LerSessaoDaMemoria(p)
    \/ \E p \in Passes : GravaMemoria(p)

SpecConcorrente == InitConcorrente /\ [][NextConcorrente]_vars

\* ------------------------------------------------------- the contact address
\* A string is the sequence of its characters.
Digitos == {"0", "1", "2", "3", "4", "5", "6", "7", "8", "9"}

\* ''.join(filter(str.isdigit, s)) and re.sub(r'\D', '', s).
SoDigitos(s) == SelectSeq(s, LAMBDA c : c \in Digitos)

\* s.startswith('55')
ComecaCom55(s) == Len(s) >= 2 /\ s[1] = "5" /\ s[2] = "5"

\* s[-13:] of a string of more than 13 characters.
Ultimos13(s) == SubSeq(s, Len(s) - 12, Len(s))

\* A variant that puts the country code before every number that does not
\* carry it yet.
NormalizarSempre55(telefone) ==
    IF telefone = <<>> THEN telefone
    ELSE LET telefone_limpo == SoDigitos(telefone)
         IN IF ComecaCom55(telefone_limpo) /\ Len(telefone_limpo) = 13
            THEN telefone_limpo
            ELSE <<"5", "5">> \o telefone_limpo

\* A variant that never cuts an over-long number.
NormalizarSemCorte(telefone) ==
    IF telefone = <<>> THEN telefone
    ELSE LET telefone_limpo == SoDigitos(telefone)
         IN IF Len(telefone_limpo) = 11
            THEN <<"5", "5">> \o telefone_limpo
            ELSE telefone_limpo

\* normalizar_telefone of the responder.
normalizar_telefone(telefone) ==
    IF telefone = <<>> THEN telefone
    ELSE LET telefone_limpo == SoDigitos(telefone)
         IN IF ComecaCom55(telefone_limpo) /\ Len(telefone_limpo) = 13
            THEN telefone_limpo
            ELSE IF Len(telefone_limpo) = 11
            THEN <<"5", "5">> \o telefone_limpo
            ELSE IF Len(telefone_limpo) = 13
            THEN telefone_limpo
            ELSE IF Len(telefone_limpo) > 13
            THEN IF SubSeq(Ultimos13(telefone_limpo), 1, 2) = <<"5", "5">>
                 THEN Ultimos13(telefone_limpo)
                 ELSE telefone_limpo
            ELSE telefone_limpo

\* _normalizar_telefone of the offer sender.
_normalizar_telefone(telefone) ==
    IF telefone = <<>> THEN <<>>
    ELSE LET telefone_limpo == SoDigitos(telefone)
         IN IF ComecaCom55(telefone_limpo) /\ Len(telefone_limpo) = 13
            THEN telefone_limpo
            ELSE IF Len(telefone_limpo) = 11
            THEN <<"5", "5">> \o telefone_limpo
            ELSE telefone_limpo

\* What a sender writes before the number: nothing, the country code with or
\* without '+', the trunk prefix, the international prefix and the country
\* code.
Prefixos ==
    {<<>>, <<"5", "5">>, <<"+", "5", "5">>, <<"0">>, <<"0", "0", "5", "5">>}

\* n times the digit d, as it is or with a stroke after every digit.
Corpo(d, n, pontuado) ==
    IF pontuado THEN [i \in 1..(2 * n) |-> IF i % 2 = 1 THEN d ELSE "-"]
    ELSE [i \in 1..n |-> d]

\* The variables that the contact address and the text of a batch leave alone.
foraDoTexto == <<now, item, acc, wk, dispatched, faults, fine, negociacao, passo, escritas, desp, historico, renov, copias>>

\* Nothing else is under way.
InitParado ==
    /\ now = 0
    /\ item = NoItem
    /\ acc = [k \in MsgIds |-> AccIdle]
    /\ wk = [k \in MsgIds |-> WkNone]
    /\ dispatched = {}
    /\ faults = 0
    /\ fine = 0
    /\ negociacao = {}
    /\ passo = PassoIdle
    /\ escritas = 0
    /\ desp = DespIdle
    /\ historico = <<>>
    /\ renov = SemRenovacao
    /\ copias = SemCopias

\* codConversa of an event: up to MaxDigitos digits after one of the prefixes.
InitTelefone ==
    /\ InitParado
    /\ lote = SemLote
    /\ \E prefixo \in Prefixos, d \in {"5", "9"}, n \in 0..MaxDigitos,
          pontuado \in BOOLEAN :
          tel = [pc |-> "entrada",
                 entrada |-> prefixo \o Corpo(d, n, pontuado),
                 uma |-> <<>>, duas |-> <<>>,
                 oferta_uma |-> <<>>, oferta_duas |-> <<>>]

\* lambda_handler normalizes codConversa; the offer sender normalizes the
\* telephone of the driver.
Normaliza ==
    /\ tel.pc = "entrada"
    /\ tel' = [tel EXCEPT !.pc = "uma",
                          !.uma = normalizar_telefone(tel.entrada),
                          !.oferta_uma = _normalizar_telefone(tel.entrada)]
    /\ UNCHANGED lote
    /\ UNCHANGED foraDoTexto

\* The normalized address comes in again, as the codConversa of a later
\* event, and is normalized again.
NormalizaDeNovo ==
    /\ tel.pc = "uma"
    /\ tel' = [tel EXCEPT !.pc = "duas",
                          !.duas = normalizar_telefone(tel.uma),
                          !.oferta_duas = _normalizar_telefone(tel.oferta_uma)]
    /\ UNCHANGED lote
    /\ UNCHANGED foraDoTexto

NextTelefone ==
    \/ Normaliza
    \/ NormalizaDeNovo

SpecTelefone == InitTelefone /\ [][NextTelefone]_vars

\* --------------------------------------------------------- the text of a batch
\* mensagem.get('mensagemResposta', ''): no reference, a reference to a text,
\* a reference to an audio.
SemResposta == [presente |-> FALSE, texto |-> "", tipo |-> ""]
Respostas ==
    {SemResposta,
     [presente |-> TRUE, texto |-> "Temos uma carga", tipo |-> "text"],
     [presente |-> TRUE, texto |-> "", tipo |-> "audio"]}

\* The shapes of a pending message: a text, an audio with and without its
\* file, an image, a document, a location with its coordinates, a location
\* without them, a location that was stored as the default ''.
Formas ==
    {[tipo |-> "TEXT", nomeArquivo |-> FALSE, localizacao |-> ""],
     [tipo |-> "audio", nomeArquivo |-> TRUE, localizacao |-> ""],
     [tipo |-> "audio", nomeArquivo |-> FALSE, localizacao |-> ""],
     [tipo |-> "image", nomeArquivo |-> TRUE, localizacao |-> ""],
     [tipo |-> "document", nomeArquivo |-> TRUE, localizacao |-> ""],
     [tipo |-> "location", nomeArquivo |-> FALSE, localizacao |-> "coordenadas"],
     [tipo |-> "location", nomeArquivo |-> FALSE, localizacao |-> "sem_coordenadas"],
     [tipo |-> "location", nomeArquivo |-> FALSE, localizacao |-> ""]}

\* The entry that armazenar_mensagem_pendente stores for the i-th message; the
\* outcome of its conversion is not known before the handler runs.
Mensagem(i, forma, resposta) ==
    [codMensagem |-> i,
     tipo |-> forma.tipo,
     texto |-> IF forma.tipo = "TEXT" THEN Texto(i) ELSE "",
     nomeArquivo |-> IF forma.nomeArquivo THEN "arquivo" \o ToString(i) ELSE "",
     localizacao |-> forma.localizacao,
     mensagemResposta |-> resposta,
     resultado |-> "ok"]

\* How the conversion of a file ends: converted; the transcription job
\* FAILED; an exception in the download or in the service; no token from the
\* parameter store.
Resultados == {"ok", "falhou", "excecao", "sem_token"}

ResultadosDe(m) ==
    IF m.tipo = "audio" /\ m.nomeArquivo # ""
    THEN {"ok", "falhou", "excecao", "sem_token"}
    ELSE IF m.tipo \in {"image", "document"} /\ m.nomeArquivo # ""
    THEN {"ok", "excecao", "sem_token"}
    ELSE {"ok"}

\* transcrever_audio: None (here "") when there is no token and when the
\* download or the transcription raises.
transcrever_audio(msg) ==
    IF msg.resultado = "sem_token" THEN ""
    ELSE IF msg.nomeArquivo = "" THEN ""
    ELSE IF msg.resultado = "ok" THEN "Texto Transcrito:" \o msg.nomeArquivo
    ELSE IF msg.resultado = "falhou" THEN "(audio nao pode ser transcrito)"
    ELSE ""

\* tratar_localizacao; msg['localizacao'] that is '' has no get.
LocalizacaoLevanta(msg) == msg.localizacao = ""
tratar_localizacao(msg) ==
    IF msg.localizacao = "coordenadas"
    THEN "Motorista enviou a seguinte localizacao: " \o ToString(msg.codMensagem)
    ELSE "[Localizacao recebida (dados incompletos)]"

\* tratar_documento
tratar_documento(msg) ==
    IF msg.resultado = "sem_token" THEN ""
    ELSE IF msg.resultado = "ok"
    THEN "Elementos inferidos pelo OCR do documento: " \o msg.nomeArquivo
    ELSE "[Erro ao processar documento: erro]"

\* tratar_imagem
tratar_imagem(msg) ==
    IF msg.resultado = "sem_token" THEN ""
    ELSE IF msg.nomeArquivo = "" THEN "[Imagem recebida sem nome]"
    ELSE IF msg.resultado = "ok"
    THEN "Elementos inferidos pelo OCR da imagem: " \o msg.nomeArquivo
    ELSE "[Erro ao processar imagem: erro]"

\* The line that a reply-to reference puts before the text; "" when the
\* reference has no text and is of no known kind.
LinhaDeContexto(mensagemResposta) ==
    IF mensagemResposta.texto # ""
    THEN "Todos os textos inclusos estao respondendo essa mensagem, ou utilizando-a como contexto: "
         \o mensagemResposta.texto \o ". \n Resposta do motorista:"
    ELSE IF mensagemResposta.tipo = "audio"
    THEN "Todos os textos inclusos estao respondendo essa mensagem, ou utilizando-a como contexto. Ela e um audio. A transcricao dele esta marcada como Texto Transcrito. \nResposta do motorista:"
    ELSE IF mensagemResposta.tipo = "document"
    THEN "Todos os textos inclusos estao respondendo essa mensagem, ou utilizando-a como contexto. Ela e um documento. As informacoes sobre ele estarao marcadas como Elementos inferidos pelo OCR do documento. \nResposta do motorista:"
    ELSE IF mensagemResposta.tipo = "image"
    THEN "Todos os textos inclusos estao respondendo essa mensagem, ou utilizando-a como contexto. Ela e uma imagem. As informacoes sobre ela estarao marcadas como Elementos inferidos pelo OCR da imagem. \nResposta do motorista:"
    ELSE IF mensagemResposta.tipo = "location"
    THEN "Todos os textos inclusos estao respondendo essa mensagem, ou utilizando-a como contexto. Ela e uma localizacao. As informacoes sobre ela estarao marcadas como Motorista enviou a seguinte localizacao. \nResposta do motorista:"
    ELSE ""

\* for answer_msg in answer_context_message: texto_combinado = texto_f + '\n'
\* + texto_combinado
RECURSIVE ComContexto(_, _)
ComContexto(mensagens, texto_combinado) ==
    IF Len(mensagens) = 0 THEN texto_combinado
    ELSE LET answer_msg == Head(mensagens)
             texto_f == LinhaDeContexto(answer_msg.mensagemResposta)
         IN ComContexto(Tail(mensagens),
                IF answer_msg.mensagemResposta.presente /\ texto_f # ""
                THEN texto_f \o "\n" \o texto_combinado
                ELSE texto_combinado)

\* The handler converts the messages of one kind: audios, documents and images
\* that carry a file, and every location.
Selecionada(msg, tipo) ==
    /\ msg.tipo = tipo
    /\ tipo = "location" \/ msg.nomeArquivo # ""

Convertido(msg) ==
    IF msg.tipo = "audio" THEN transcrever_audio(msg)
    ELSE IF msg.tipo = "location" THEN tratar_localizacao(msg)
    ELSE IF msg.tipo = "document" THEN tratar_documento(msg)
    ELSE tratar_imagem(msg)

\* The converted texts of the messages of one kind, those that are not empty.
RECURSIVE TextosDe(_, _)
TextosDe(mensagens, tipo) ==
    IF Len(mensagens) = 0 THEN <<>>
    ELSE (IF Selecionada(Head(mensagens), tipo) /\ Convertido(Head(mensagens)) # ""
          THEN <<Convertido(Head(mensagens))>> ELSE <<>>)
         \o TextosDe(Tail(mensagens), tipo)

\* texto_combinado = '\n'.join(textos) + '\n' + texto_combinado
AFrente(textos, texto_combinado) ==
    IF Len(textos) = 0 THEN texto_combinado
    ELSE JoinLines(textos) \o "\n" \o texto_combinado

\* The text that processar_mensagens_acumuladas_handler builds: the texts,
\* before them the context lines, before them the transcriptions, before them
\* the locations, before them the documents, before them the images.
texto_combinado(mensagens) ==
    AFrente(TextosDe(mensagens, "image"),
      AFrente(TextosDe(mensagens, "document"),
        AFrente(TextosDe(mensagens, "location"),
          AFrente(TextosDe(mensagens, "audio"),
            ComContexto(mensagens, combinar_mensagens(mensagens))))))

\* The batches that a wakeup drains: 1 to MaxLote messages.
LotesDrenados ==
    UNION {[1..n -> Formas \X Respostas] : n \in 1..MaxLote}

InitTexto ==
    /\ InitParado
    /\ tel = SemTelefone
    /\ \E l \in LotesDrenados :
          lote = [pc |-> "drenado",
                  mensagens |-> [i \in DOMAIN l |-> Mensagem(i, l[i][1], l[i][2])],
                  texto |-> ""]

\* processar_mensagens_acumuladas_handler from the drained batch to the
\* dispatch of the combined message, or to its except branch.
ProcessaLote ==
    /\ lote.pc = "drenado"
    /\ \E r \in [DOMAIN lote.mensagens -> Resultados] :
          /\ \A i \in DOMAIN r : r[i] \in ResultadosDe(lote.mensagens[i])
          /\ LET mensagens == [i \in DOMAIN r |->
                                  [lote.mensagens[i] EXCEPT !.resultado = r[i]]]
             IN lote' = IF \E i \in DOMAIN mensagens :
                              /\ mensagens[i].tipo = "location"
                              /\ LocalizacaoLevanta(mensagens[i])
                         THEN [lote EXCEPT !.pc = "erro", !.mensagens = mensagens]
                         ELSE [lote EXCEPT !.pc = "despachado",
                                           !.mensagens = mensagens,
                                           !.texto = texto_combinado(mensagens)]
    /\ UNCHANGED tel
    /\ UNCHANGED foraDoTexto

NextTexto == ProcessaLote

SpecTexto == InitTexto /\ [][NextTexto]_vars

\* ---------------------------------------------------------- the scheduling
\* The Lambda service runs every invocation it accepted to its end: a handler
\* that has read the record goes on to its write, a wakeup whose sleep is over
\* reads the record, and time goes on while a wakeup sleeps.
Justica ==
    /\ WF_vars(TickToDue)
    /\ \A k \in MsgIds :
          /\ WF_vars(AcceptUpdate(k) \/ AcceptPut(k) \/ AcceptWriteFails(k))
          /\ WF_vars(FireGet(k) \/ FireGetFails(k))
          /\ WF_vars(FireUpdate(k) \/ FireUpdateFails(k))

SpecJusto == Init /\ [][Next]_vars /\ Justica

\* ------------------------------------------------- the two lifecycle copies
\* The instants at which the copies are called: minute 5 and minute 55 of an
\* hour more than a memory window after the origin of the clock.
InstantesDasCopias ==
    {Ticks(MEMORY_TIMEOUT) + Ticks(SegundosPorHora) + Ticks(5 * 60),
     Ticks(MEMORY_TIMEOUT) + Ticks(SegundosPorHora) + Ticks(55 * 60)}

\* The age of the stored pointer: ten minutes, one second less than the
\* session window, the session window.
IdadesDoPonteiro ==
    {Ticks(10 * 60), Ticks(SESSION_TIMEOUT - 1), Ticks(SESSION_TIMEOUT)}

\* The latest item that the calls find at instant t: its pointer, under the
\* hour bucket in which the pointer was minted or under the current one, with
\* or without a cargo id, without a memory timestamp or with one that is
\* valid or expired.
ItensDasCopias(t) ==
    {[tempo_sessao |-> IF rodado THEN current_tempo_sessao(t)
                       ELSE current_tempo_sessao(t - idade),
      attrs |-> [SemAtributos EXCEPT
                    !["session_id"] = t - idade,
                    !["negociacao_iniciada_em"] = t - idade,
                    !["carga_id"] = carga_id,
                    !["tempo_memoria"] =
                        IF memoria = "valida" THEN t - idade
                        ELSE IF memoria = "vencida"
                        THEN t - Ticks(MEMORY_TIMEOUT)
                        ELSE Ausente]] :
        idade \in IdadesDoPonteiro,
        rodado \in BOOLEAN,
        carga_id \in {Ausente} \cup CargaIds,
        memoria \in {"sem", "valida", "vencida"}}

\* Neither copy has been called.
CopiasIdle ==
    [coordenador |-> [pc |-> "idle", session_id |-> Ausente, tabela |-> {}],
     agente |-> [pc |-> "idle", session_id |-> Ausente, tabela |-> {}]]

\* The ledger is empty or holds one item, and both copies are about to be
\* called on it at the same instant.
InitCopias ==
    /\ \E t \in InstantesDasCopias :
          /\ now = t
          /\ \/ negociacao = {}
             \/ \E r \in ItensDasCopias(t) : negociacao = {r}
    /\ item = NoItem
    /\ acc = [k \in MsgIds |-> AccIdle]
    /\ wk = [k \in MsgIds |-> WkNone]
    /\ dispatched = {}
    /\ faults = 0
    /\ fine = 0
    /\ passo = PassoIdle
    /\ escritas = 0
    /\ desp = DespIdle
    /\ historico = <<>>
    /\ renov = SemRenovacao
    /\ tel = SemTelefone
    /\ lote = SemLote
    /\ copias = CopiasIdle

\* What the calls of the copies leave alone: each works on the ledger as it
\* was found.
foraDasCopias == <<now, item, acc, wk, dispatched, faults, fine, negociacao, passo, escritas, desp, historico, renov, tel, lote>>

\* processar_com_chatbot of the responder calls its _get_or_create_session_id.
CopiaDoCoordenador ==
    /\ copias.coordenador.pc = "idle"
    /\ LET r == _get_or_create_session_id(negociacao, now, TRUE)
       IN copias' = [copias EXCEPT !.coordenador =
                        [pc |-> "fim", session_id |-> r.session_id,
                         tabela |-> r.tabela]]
    /\ UNCHANGED foraDasCopias

\* lambda_handler of the chatbot Lambda calls its _get_or_create_session_id.
CopiaDoAgente ==
    /\ copias.agente.pc = "idle"
    /\ LET r == chatbot_get_or_create_session_id(negociacao, now, TRUE)
       IN copias' = [copias EXCEPT !.agente =
                        [pc |-> "fim", session_id |-> r.session_id,
                         tabela |-> r.tabela]]
    /\ UNCHANGED foraDasCopias

NextCopias ==
    \/ CopiaDoCoordenador
    \/ CopiaDoAgente

SpecCopias == InitCopias /\ [][NextCopias]_vars

\* ------------------------------------------------------------ properties
\* The message numbers of a batch, in its order.
Ids(mensagens) == [i \in 1..Len(mensagens) |-> mensagens[i].codMensagem]

AllIds == [i \in 1..MaxMsgs |-> i]

\* The wakeups whose Fire returned a non-empty batch.
NonEmptyFires == {k \in MsgIds : wk[k].pc = "done" /\ wk[k].mensagens # <<>>}

\* Every message was accepted and every wakeup has returned.
AllQuiet ==
    \A k \in MsgIds : acc[k].pc = "done" /\ wk[k].pc \in {"none", "done"}

\* Each message arrived within the extension delay of the previous one.
Burst ==
    \A k \in MsgIds :
        k > 1 => acc[k].timestamp_atual - acc[k - 1].timestamp_atual
                    < Ticks(MESSAGE_EXTENSION_DELAY)

\* Steps of wk[k]: its Fire reads the record, obtains a match, clears the record.
FireReads(k) == wk[k].pc = "sleeping" /\ wk'[k].pc # "sleeping"
FireMatches(k) == wk[k].pc = "sleeping" /\ wk'[k].pc = "read"
FireDrains(k) ==
    wk[k].pc = "read" /\ wk'[k].pc = "done" /\ wk'[k].mensagens # <<>>

\* C1: a burst of MaxMsgs messages, each within the extension delay of the
\* previous one and no collaborator failing: once every wakeup has returned,
\* exactly one Fire returned a non-empty batch, that batch holds all the
\* messages in arrival order, and every other Fire returned empty.
C1_Coalescing ==
    (AllQuiet /\ Burst /\ faults = 0)
        => \E k \in MsgIds :
              /\ NonEmptyFires = {k}
              /\ Ids(wk[k].mensagens) = AllIds

\* C2 (no collaborator failing): every batch is drained exactly once, by a wakeup whose fencing value
\* matches the stored token: whenever a wakeup clears the record, the record is
\* still armed, still carries a token matching the wakeup's fencing value (within
\* the tolerance of the comparison) and still holds exactly the batch the wakeup
\* read. (The claim asks for the token of the latest Accept itself; this weaker
\* form is already violated.)
C2_ExactlyOneDrain ==
    [][\A k \in MsgIds :
          (FireDrains(k) /\ faults' = 0) =>
              /\ item.timer_active
              /\ ~TimerInvalidated(item, wk[k].timer_timestamp)
              /\ item.pending_messages = wk[k].mensagens]_vars

\* C3 (no collaborator failing): two Fire calls with the same fencing value
\* return the batch at most once: of two wakeups that carry the same timer_timestamp, at most one
\* returns a non-empty batch.
C3_FencingIdempotence ==
    \A j, k \in MsgIds :
        (j # k /\ faults = 0 /\ wk[j].pc = "done" /\ wk[k].pc = "done"
              /\ wk[j].timer_timestamp = wk[k].timer_timestamp)
            => (wk[j].mensagens = <<>> \/ wk[k].mensagens = <<>>)

C5_InactiveReturnsEmpty ==
    [][\A k \in MsgIds :
          (FireReads(k) /\ faults' = 0 /\ item.present /\ ~item.timer_active)
            => (wk'[k].pc = "done" /\ wk'[k].mensagens = <<>>)]_vars

\* Steps of acc[k]: armazenar_mensagem_pendente writes the record and returns
\* normally, having read a record without / with an active timer.
AcceptCreates(k) ==
    /\ acc[k].pc = "read" /\ ~TimerAtivo(acc[k].item)
    /\ acc'[k].pc = "done" /\ ~acc'[k].erro
AcceptAppends(k) ==
    /\ acc[k].pc = "read" /\ TimerAtivo(acc[k].item)
    /\ acc'[k].pc = "done" /\ ~acc'[k].erro

\* The wakeup that Accept k schedules with the given delay, and no other.
SchedulesOne(k, delay_seconds) ==
    /\ wk'[k] = [pc |-> "sleeping",
                 timer_timestamp |-> acc[k].timestamp_atual,
                 delay_seconds |-> delay_seconds,
                 started |-> now,
                 mensagens |-> <<>>]
    /\ \A j \in MsgIds : j # k => wk'[j] = wk[j]

\* C6: an Accept that read no record, or a record with timer_active false, and
\* whose store calls succeed, leaves a record holding only the new message with
\* fencing token = its own timestamp and timer_active = true, returns
\* deve_processar = false with one accumulated message (nothing is dispatched),
\* and its invoke, when issued successfully, schedules exactly one wakeup that
\* carries that timestamp and sleeps the initial delay.
C6_AcceptStartsBatch ==
    [][\A k \in MsgIds :
          AcceptCreates(k) =>
              /\ item' = [present |-> TRUE,
                          pending_messages |->
                              <<PendingEntry(k, acc[k].timestamp_atual)>>,
                          timer_timestamp |-> acc[k].timestamp_atual,
                          timer_active |-> TRUE]
              /\ ~acc'[k].deve_processar
              /\ acc'[k].is_first_message
              /\ acc'[k].mensagens_acumuladas = 1
              /\ dispatched' = dispatched
              /\ acc'[k].agendado =>
                     SchedulesOne(k, MESSAGE_ACCUMULATION_DELAY)]_vars

\* A later message has started a new batch on a record that an earlier wakeup
\* had cleared, and its wakeup is asleep.
C6_Witness ==
    \E k \in MsgIds :
        /\ acc[k].pc = "done" /\ ~acc[k].erro /\ acc[k].is_first_message
        /\ acc[k].agendado /\ wk[k].pc = "sleeping"
        /\ wk[k].delay_seconds = MESSAGE_ACCUMULATION_DELAY
        /\ Ids(item.pending_messages) = <<k>>
        /\ item.timer_active
        /\ \E j \in MsgIds : j < k /\ wk[j].pc = "done" /\ wk[j].mensagens # <<>>

\* C7: an Accept that read a record with timer_active true, and whose store calls
\* succeed, writes the list it read with the new message appended at the end,
\* overwrites the fencing token with its own timestamp, returns
\* deve_processar = false with mensagens_acumuladas = the new length (nothing is
\* dispatched), and its invoke, when issued successfully, schedules exactly one
\* new wakeup that carries the new timestamp and sleeps the extension delay.
C7_AcceptExtendsBatch ==
    [][\A k \in MsgIds :
          AcceptAppends(k) =>
              /\ item'.pending_messages =
                     acc[k].item.pending_messages
                         \o <<PendingEntry(k, acc[k].timestamp_atual)>>
              /\ item'.timer_timestamp = acc[k].timestamp_atual
              /\ item'.timer_active = item.timer_active
              /\ ~acc'[k].deve_processar
              /\ ~acc'[k].is_first_message
              /\ acc'[k].mensagens_acumuladas = Len(item'.pending_messages)
              /\ dispatched' = dispatched
              /\ acc'[k].agendado =>
                     SchedulesOne(k, MESSAGE_EXTENSION_DELAY)]_vars

\* A message was appended to an armed batch: the record holds at least two
\* messages, the last one is the new one, and the extension wakeup is asleep.
C7_Witness ==
    \E k \in MsgIds :
        /\ acc[k].pc = "done" /\ ~acc[k].erro /\ ~acc[k].is_first_message
        /\ acc[k].agendado /\ wk[k].pc = "sleeping"
        /\ wk[k].delay_seconds = MESSAGE_EXTENSION_DELAY
        /\ acc[k].mensagens_acumuladas >= 2
        /\ Len(item.pending_messages) = acc[k].mensagens_acumuladas
        /\ item.pending_messages[Len(item.pending_messages)].codMensagem = k
        /\ item.timer_timestamp = acc[k].timestamp_atual

\* C8: when get_item, update_item or put_item fails in Accept, Accept returns
\* deve_processar = true and the handler has handed that one message, alone, to
\* processar_e_responder by the time it returns; a message that was stored is
\* not processed at once.
C8_StoreFailureProcessesNow ==
    \A k \in MsgIds :
        acc[k].pc = "done" =>
            /\ acc[k].erro => acc[k].deve_processar
            /\ acc[k].deve_processar <=>
                   [origem |-> "solo", de |-> k, texto |-> Texto(k)] \in dispatched
            /\ acc[k].erro <=> acc[k].deve_processar

\* The store failed for a message that arrived while a batch was armed: the
\* message was processed alone and the batch is still waiting.
C8_Witness ==
    \E k \in MsgIds :
        /\ acc[k].pc = "done" /\ acc[k].erro /\ acc[k].deve_processar
        /\ [origem |-> "solo", de |-> k, texto |-> Texto(k)] \in dispatched
        /\ TimerAtivo(item) /\ item.pending_messages # <<>>

\* The timestamp of the most recent Accept.
RECURSIVE MaxTs(_)
MaxTs(k) ==
    IF k = 0 THEN 0
    ELSE IF acc[k].pc # "idle" /\ acc[k].timestamp_atual > MaxTs(k - 1)
         THEN acc[k].timestamp_atual
         ELSE MaxTs(k - 1)

\* C10 (no collaborator failing): a Fire that finds a batch to release runs at
\* least the extension delay after the most recent Accept (less the 0.1 s the
\* timer comparison tolerates), and while only one message has arrived its
\* batch is not released before the initial delay after that arrival.
C10_FireTime ==
    [][\A k \in MsgIds :
          (FireMatches(k) /\ faults' = 0) =>
              /\ now + TimerTolerance
                     >= MaxTs(MaxMsgs) + Ticks(MESSAGE_EXTENSION_DELAY)
              /\ (\A j \in MsgIds : j > 1 => acc[j].pc = "idle") =>
                     now >= acc[1].timestamp_atual
                              + Ticks(MESSAGE_ACCUMULATION_DELAY)]_vars

\* C9: in the example ("Oi", then "bom dia" 2 s later, then 12 s of silence)
\* nothing is processed but the one combined message "Oi" + newline + "bom dia",
\* it is handed over by the wakeup of the second message only, and once the
\* silence is over it has been handed over and the 10 s wakeup of the first
\* message has returned an empty batch.
C9_ExampleScenario ==
    /\ dispatched \subseteq {[origem |-> "lote", de |-> 2, texto |-> "Oi\nbom dia"]}
    /\ wk[1].pc = "done" => wk[1].mensagens = <<>>
    /\ now = ExemploFim =>
          /\ dispatched # {}
          /\ wk[1].pc = "done"
          /\ wk[2].pc = "done" /\ Ids(wk[2].mensagens) = <<1, 2>>
          /\ item.pending_messages = <<>>

\* The silence is over: the combined message was handed over and the first
\* wakeup woke up, 10 s after "Oi", and found nothing.
C9_Witness ==
    /\ now = ExemploFim
    /\ dispatched = {[origem |-> "lote", de |-> 2, texto |-> "Oi\nbom dia"]}
    /\ wk[1].pc = "done" /\ wk[1].mensagens = <<>>
    /\ wk[1].delay_seconds = MESSAGE_ACCUMULATION_DELAY
    /\ wk[2].pc = "done" /\ wk[2].delay_seconds = MESSAGE_EXTENSION_DELAY


\* ------------------------------------------------- properties of the ledger
\* The steps of a pass in which GetOrCreateSession and GetOrCreateMemory run.
SessaoRoda == passo.pc = "idle" /\ passo'.pc = "memoria"
MemoriaRoda == passo.pc = "memoria" /\ passo'.pc = "agente"
\* The write of the step, if it made one, was stored.
Gravou == passo'.falhou = passo.falhou

\* Whole seconds between two instants, as the code takes them.
Idade(desde, t) == (t \div Ticks(1)) - (desde \div Ticks(1))

\* The latest item carries a session pointer.
TemPonteiro ==
    negociacao # {} /\ MaisRecente(negociacao).attrs["session_id"] # Ausente
Ponteiro == MaisRecente(negociacao).attrs["session_id"]

\* C11: GetOrCreateSession returns a freshly minted pointer with renewed = true
\* when the age of the existing pointer is 3600 s or more, and the existing
\* pointer with renewed = false when the age is 3599 s or less.
C11_RenewalThreshold ==
    [][(SessaoRoda /\ TemPonteiro) =>
         /\ Idade(Ponteiro, now) >= 3600 =>
               /\ passo'.session_renewed
               /\ passo'.session_id = now
               /\ passo'.session_id # Ponteiro
         /\ Idade(Ponteiro, now) <= 3599 =>
               /\ ~passo'.session_renewed
               /\ passo'.session_id = Ponteiro]_vars

\* A pass renewed a pointer whose age was exactly 3600 s: the pointer minted
\* 3600 s before this one is still in the ledger.
C11_Witness ==
    /\ passo.pc = "memoria"
    /\ passo.session_renewed
    /\ \E r \in negociacao :
          /\ r.attrs["session_id"] # Ausente
          /\ Idade(r.attrs["session_id"], passo.session_id) = 3600

\* The item stored under the hour bucket of instant t.
NoBalde(tabela, t) ==
    CHOOSE r \in tabela : r.tempo_sessao = current_tempo_sessao(t)
TemBalde(tabela, t) ==
    \E r \in tabela : r.tempo_sessao = current_tempo_sessao(t)
\* Every item under another key is as it was.
SoMudouBalde(t) ==
    /\ \A r \in negociacao :
          r.tempo_sessao # current_tempo_sessao(t) => r \in negociacao'
    /\ \A r \in negociacao' :
          r.tempo_sessao # current_tempo_sessao(t) => r \in negociacao
\* The attributes besides the session pointer and the start time.
Fatos == Campos \ {"session_id", "negociacao_iniciada_em"}

\* C12 as stated: when there is no negotiation item, or the latest one carries
\* no session pointer, GetOrCreateSession mints a pointer, stores one item
\* under the current hour bucket that carries no fact forward, and returns
\* renewed = false.
C12_FirstSession ==
    [][(SessaoRoda /\ Gravou /\ ~TemPonteiro) =>
         /\ passo'.session_id = now
         /\ ~passo'.session_renewed
         /\ TemBalde(negociacao', now)
         /\ SoMudouBalde(now)
         /\ NoBalde(negociacao', now).attrs["session_id"] = now
         /\ \A c \in Fatos : NoBalde(negociacao', now).attrs[c] = Ausente]_vars

\* C12 amended: with no negotiation item the stored item carries no fact; when
\* the latest item exists but carries no session pointer, the stored item
\* carries that item's allow-listed facts whose value is not empty (its memory
\* timestamp only while inside the memory window) and nothing else.
C12_FirstSessionInherits ==
    [][(SessaoRoda /\ Gravou /\ ~TemPonteiro) =>
         /\ passo'.session_id = now
         /\ ~passo'.session_renewed
         /\ TemBalde(negociacao', now)
         /\ SoMudouBalde(now)
         /\ NoBalde(negociacao', now).attrs["session_id"] = now
         /\ \A c \in Fatos :
               NoBalde(negociacao', now).attrs[c] =
                  IF negociacao = {} \/ c \notin immutable_fields THEN Ausente
                  ELSE IF MaisRecente(negociacao).attrs[c] = Vazio THEN Ausente
                  ELSE IF c = "tempo_memoria"
                          /\ Idade(MaisRecente(negociacao).attrs[c], now) >= 604800
                       THEN Ausente
                  ELSE MaisRecente(negociacao).attrs[c]]_vars

\* A later pass found a latest item without a session pointer that carried a
\* cargo id, and the item it stored under the hour bucket carries that cargo id.
C12_Witness ==
    /\ passo.pc = "memoria"
    /\ passo.ramo = "cria"
    /\ passo.n >= 2
    /\ \E v \in negociacao :
          /\ v.attrs["session_id"] = Ausente
          /\ v.attrs["carga_id"] \in CargaIds
          /\ TemBalde(negociacao, now)
          /\ NoBalde(negociacao, now).attrs["session_id"] = passo.session_id
          /\ NoBalde(negociacao, now).attrs["carga_id"] = v.attrs["carga_id"]

\* The sort key of the latest item is the hour bucket of the present instant.
NoBaldeAtual ==
    MaisRecente(negociacao).tempo_sessao = current_tempo_sessao(now)

\* C13: when the age of the existing pointer is under 3600 s and the latest
\* item's bucket is the current hour bucket, GetOrCreateSession returns the
\* existing pointer with renewed = false and writes nothing to the ledger.
C13_SameBucketReuse ==
    [][(SessaoRoda /\ TemPonteiro /\ Idade(Ponteiro, now) < 3600
           /\ NoBaldeAtual) =>
         /\ passo'.session_id = Ponteiro
         /\ ~passo'.session_renewed
         /\ negociacao' = negociacao]_vars

\* A second or later pass, some time after the pointer was minted, reused the
\* pointer of the item under the current bucket.
C13_Witness ==
    /\ passo.pc = "memoria"
    /\ passo.ramo = "reusa"
    /\ negociacao # {}
    /\ NoBaldeAtual
    /\ passo.session_id = MaisRecente(negociacao).attrs["session_id"]
    /\ passo.session_id < now

\* C14: when the age of the existing pointer is under 3600 s but the hour has
\* rolled over, GetOrCreateSession returns the same pointer with
\* renewed = false, and afterwards the latest item has the new hour bucket and
\* carries that pointer.
C14_BucketRotation ==
    [][(SessaoRoda /\ Gravou /\ TemPonteiro /\ Idade(Ponteiro, now) < 3600
           /\ ~NoBaldeAtual) =>
         /\ passo'.session_id = Ponteiro
         /\ ~passo'.session_renewed
         /\ MaisRecente(negociacao').tempo_sessao = current_tempo_sessao(now)
         /\ MaisRecente(negociacao').attrs["session_id"] = Ponteiro]_vars

\* The pointer was minted at minute 55 of hour 0, the pass ran at minute 5 of
\* hour 1, and the latest item is under the bucket of hour 1 with the pointer.
C14_Witness ==
    /\ passo.pc = "memoria"
    /\ passo.ramo = "roda"
    /\ passo.session_id = Ticks(55 * 60)
    /\ Idade(passo.session_id, now) = 600
    /\ MaisRecente(negociacao).tempo_sessao = [t |-> Ticks(3600), hora |-> TRUE]
    /\ MaisRecente(negociacao).attrs["session_id"] = passo.session_id
    /\ \E r \in negociacao : r.tempo_sessao = [t |-> 0, hora |-> TRUE]

\* The allow-listed facts that the items of the model carry: the cargo id,
\* the vehicle id and the equipment ids.
FatosPermitidos == {"carga_id", "veiculo_cavalo_id", "equipamento_ids"}

\* C15 as stated: after a session renewal every allow-listed fact of the prior
\* latest item is in the new latest item with the same value, and no attribute
\* outside the allow-list is in it besides its key, its pointer and its start
\* time. The memory timestamp, which the code's allow-list names, is either
\* absent or the prior one.
C15_FactInheritance ==
    [][(SessaoRoda /\ Gravou /\ TemPonteiro /\ passo'.session_renewed) =>
         LET anterior == MaisRecente(negociacao).attrs
             novo == MaisRecente(negociacao')
         IN /\ novo.tempo_sessao = current_tempo_sessao(now)
            /\ novo.attrs["session_id"] = passo'.session_id
            /\ \A c \in FatosPermitidos : novo.attrs[c] = anterior[c]
            /\ novo.attrs["tempo_memoria"] \in {Ausente, anterior["tempo_memoria"]}
            /\ \A c \in Fatos \ (FatosPermitidos \cup {"tempo_memoria"}) :
                  novo.attrs[c] = Ausente]_vars

\* C15 amended: after a session renewal every allow-listed fact that the prior
\* latest item carries with a value that is not empty is in the new latest
\* item with the same value; an allow-listed fact stored with an empty value
\* is not in it, and neither is any attribute outside the allow-list besides
\* the key, the pointer and the start time.
C15_NonEmptyFactInheritance ==
    [][(SessaoRoda /\ Gravou /\ TemPonteiro /\ passo'.session_renewed) =>
         LET anterior == MaisRecente(negociacao).attrs
             novo == MaisRecente(negociacao')
         IN /\ novo.tempo_sessao = current_tempo_sessao(now)
            /\ novo.attrs["session_id"] = passo'.session_id
            /\ \A c \in FatosPermitidos :
                  novo.attrs[c] = IF anterior[c] = Vazio THEN Ausente
                                  ELSE anterior[c]
            /\ novo.attrs["tempo_memoria"] \in {Ausente, anterior["tempo_memoria"]}
            /\ \A c \in Fatos \ (FatosPermitidos \cup {"tempo_memoria"}) :
                  novo.attrs[c] = Ausente]_vars

\* A renewal under a new hour bucket: the prior item carried a cargo id, a
\* vehicle id, an empty equipment list and the instant of the vehicle update;
\* the new latest item carries the cargo id and the vehicle id and neither the
\* equipment list nor that instant.
C15_Witness ==
    /\ passo.pc = "memoria"
    /\ passo.session_renewed
    /\ LET novo == MaisRecente(negociacao)
       IN /\ novo.attrs["session_id"] = passo.session_id
          /\ novo.attrs["carga_id"] \in CargaIds
          /\ novo.attrs["veiculo_cavalo_id"] \in VeiculoIds
          /\ novo.attrs["veiculos_updated_at"] = Ausente
          /\ novo.attrs["equipamento_ids"] = Ausente
          /\ \E r \in negociacao :
                /\ r # novo
                /\ r.attrs["carga_id"] = novo.attrs["carga_id"]
                /\ r.attrs["veiculo_cavalo_id"] = novo.attrs["veiculo_cavalo_id"]
                /\ r.attrs["veiculos_updated_at"] # Ausente
                /\ r.attrs["equipamento_ids"] = Vazio

\* C16: over any sequence of passes and business writes, an allow-listed fact
\* that the latest item carries is in the latest item with the same value
\* after every step of a pass; a business write leaves it or replaces it.
C16_FactsSurvivePasses ==
    [][negociacao # {} =>
         /\ negociacao' # {}
         /\ \A c \in FatosPermitidos :
               MaisRecente(negociacao).attrs[c] \notin {Ausente, Vazio} =>
                  IF SessaoRoda \/ MemoriaRoda
                  THEN MaisRecente(negociacao').attrs[c]
                          = MaisRecente(negociacao).attrs[c]
                  ELSE MaisRecente(negociacao').attrs[c]
                          \notin {Ausente, Vazio}]_vars

MemoriaGuardada ==
    IF negociacao = {} THEN Ausente
    ELSE MaisRecente(negociacao).attrs["tempo_memoria"]

\* C18: GetOrCreateMemory reuses the stored memory timestamp while its age is
\* under 604800 s and writes nothing; when none is stored or its age is
\* 604800 s or more it mints a fresh timestamp, returns it and stores it on the
\* most recent item, creating an item when there is none; it never changes
\* the session pointer of an existing item.
C18_MemoryLifecycle ==
    [][MemoriaRoda =>
         /\ (MemoriaGuardada # Ausente /\ Idade(MemoriaGuardada, now') < 604800) =>
               /\ passo'.tempo_memoria = MemoriaGuardada
               /\ negociacao' = negociacao
         /\ (MemoriaGuardada = Ausente \/ Idade(MemoriaGuardada, now') >= 604800) =>
               /\ passo'.tempo_memoria = now'
               /\ Gravou =>
                     IF negociacao = {}
                     THEN /\ Cardinality(negociacao') = 1
                          /\ MaisRecente(negociacao').attrs["tempo_memoria"] = now'
                     ELSE negociacao' =
                            (negociacao \ {MaisRecente(negociacao)}) \cup
                            {[MaisRecente(negociacao) EXCEPT
                                 !.attrs["tempo_memoria"] = now']}
         /\ \A r \in negociacao : \E q \in negociacao' :
               /\ q.tempo_sessao = r.tempo_sessao
               /\ q.attrs["session_id"] = r.attrs["session_id"]]_vars

\* C19: on a session renewal the memory timestamp of the prior latest item is
\* copied into the new item only if it is under 604800 s old; an expired one
\* is not copied, and GetOrCreateMemory of the pass mints a fresh one.
C19_MemoryCopiedWhileValid ==
    /\ (passo.pc = "memoria" /\ passo.session_renewed /\ passo.falhou = 0) =>
          /\ MaisRecente(negociacao).attrs["session_id"] = passo.session_id
          /\ MaisRecente(negociacao).attrs["tempo_memoria"] =
                IF passo.memoria_antes # Ausente
                   /\ Idade(passo.memoria_antes, passo.inicio) < 604800
                THEN passo.memoria_antes ELSE Ausente
    /\ (/\ passo.pc = "agente" /\ passo.session_renewed
        /\ passo.memoria_antes # Ausente
        /\ Idade(passo.memoria_antes, passo.inicio) >= 604800) =>
          /\ passo.tempo_memoria = now
          /\ passo.tempo_memoria # passo.memoria_antes

\* A renewal found a memory timestamp exactly 604800 s old: the new latest
\* item got the fresh timestamp that GetOrCreateMemory minted, not the old one.
C19_Witness ==
    /\ passo.pc = "agente"
    /\ passo.session_renewed
    /\ passo.falhou = 0
    /\ passo.memoria_antes # Ausente
    /\ Idade(passo.memoria_antes, passo.inicio) = 604800
    /\ passo.tempo_memoria = now
    /\ MaisRecente(negociacao).attrs["session_id"] = passo.session_id
    /\ MaisRecente(negociacao).attrs["tempo_memoria"] = now

\* C20 as stated: the windows count inactivity. In a run without failing
\* writes in which every pass began less than 3600 s after the one before it,
\* every pass after the first returns the session pointer of the one before it
\* and none renews; and when every pass began less than 604800 s after the one
\* before it, every pass returns the memory timestamp that was stored.
C20_InactivityWindow ==
    [][/\ (SessaoRoda /\ faults' = 0 /\ passo.n > 0 /\ passo'.seguidos) =>
             /\ ~passo'.session_renewed
             /\ passo'.session_id = passo.session_id
       /\ (/\ MemoriaRoda /\ faults' = 0 /\ passo.n > 1
           /\ passo.seguidos_mem /\ passo.memoria_antes # Ausente) =>
             passo'.tempo_memoria = passo.memoria_antes]_vars

\* C20 amended: the windows count from the instant at which the pointer was
\* minted. A pass renews the session pointer exactly when the pointer is
\* 3600 s old or older and otherwise returns it, and mints a memory timestamp
\* exactly when the stored one is 604800 s old or older and otherwise returns
\* it, whenever the passes before it happened.
C20_WindowFromCreation ==
    [][/\ (SessaoRoda /\ TemPonteiro) =>
             /\ passo'.session_renewed <=> Idade(Ponteiro, now) >= 3600
             /\ passo'.session_id =
                   IF Idade(Ponteiro, now) >= 3600 THEN now ELSE Ponteiro
       /\ (MemoriaRoda /\ MemoriaGuardada # Ausente) =>
             passo'.tempo_memoria =
                IF Idade(MemoriaGuardada, now') >= 604800 THEN now'
                ELSE MemoriaGuardada]_vars

\* No write has failed and every pass began less than 3600 s after the one
\* before it, the last just after a pass that had reused the pointer; yet this
\* pass renewed the pointer, which was 3600 s old or older.
C20_Witness ==
    /\ passo.pc = "memoria"
    /\ faults = 0
    /\ passo.n > 2
    /\ passo.seguidos
    /\ passo.session_renewed
    /\ passo.ramo = "renova"
    /\ \E r \in negociacao :
          /\ r.attrs["session_id"] # Ausente
          /\ Idade(r.attrs["session_id"], now) >= 3600
          /\ Idade(r.attrs["session_id"], now) < 2 * 3600

\* C21: a renewal whose write is stored leaves one more item in the ledger
\* than before, and the item that was the latest before the renewal is still
\* there, unchanged.
C21_RenewalAddsRecord ==
    [][(SessaoRoda /\ Gravou /\ passo'.session_renewed) =>
         /\ Cardinality(negociacao') = Cardinality(negociacao) + 1
         /\ MaisRecente(negociacao) \in negociacao']_vars

\* C22: whenever the latest item carries a session pointer, its
\* negociacao_iniciada_em is the instant at which that pointer was minted.
C22_StartIsPointerInstant ==
    TemPonteiro =>
        MaisRecente(negociacao).attrs["negociacao_iniciada_em"] = Ponteiro

\* ------------------------------------------------- properties of the dispatch
\* The step in which the rest of processar_com_chatbot runs, and the step in
\* which a call of processar_e_responder returns.
InvocaRoda == desp.pc = "processar" /\ passo.pc = "agente" /\ passo'.pc = "fim"
DespachoTermina == desp.pc # "idle" /\ desp'.pc = "idle"

\* C23: the context is rebuilt from the history log in a pass if and only if
\* the pass renewed the session pointer and was started by the channel
\* transition with from_sse; never when the pointer was not renewed, and never
\* for a fired debounce batch.
C23_ReconstructionOnlyOnTransition ==
    [][InvocaRoda =>
         /\ desp'.reconstruiu <=> (passo.session_renewed /\ desp.from_sse)
         /\ desp'.contexto => desp'.reconstruiu
         /\ ~passo.session_renewed => ~desp'.reconstruiu
         /\ desp.origem = "lote" => ~desp'.reconstruiu]_vars

\* A pass of the channel transition renewed the pointer and the digest of the
\* history log was put before its message.
C23_Witness ==
    /\ desp.pc = "responder"
    /\ desp.origem = "sse"
    /\ desp.from_sse
    /\ passo.session_renewed
    /\ desp.reconstruiu
    /\ desp.contexto

\* The batches that fired so far.
Lotes == {b \in dispatched : b.origem = "lote"}

\* C24: the lifecycle runs once for every fired batch and not for every
\* inbound message: a step of armazenar_mensagem_pendente leaves the ledger
\* and the passes alone, a pass begins only for a batch that fired and has not
\* had its pass, and the pointer handed to the agent with the batch is the one
\* that the lifecycle call of that pass returned and that the ledger holds,
\* before the chatbot is invoked and after it.
C24_LifecyclePerBatch ==
    [][/\ acc' # acc => UNCHANGED <<negociacao, passo, desp, historico>>
       /\ passo'.n # passo.n =>
             /\ SessaoRoda
             /\ passo'.n = passo.n + 1
             /\ passo'.n <= Cardinality(Lotes)
       /\ InvocaRoda =>
             /\ passo.n = desp.n
             /\ desp'.codConversa = passo.session_id
             /\ passo.inicio <= now
             /\ TemPonteiro /\ Ponteiro = passo.session_id
             /\ desp'.agente # "raise" => Ponteiro' = passo.session_id]_vars

\* Two messages were accepted while the ledger was empty and fired as one
\* batch, and the pass of that batch, the first one, has handed its pointer to
\* the agent; a third message is being accepted now that the ledger holds a
\* record.
C24_Witness ==
    /\ acc[1].pc = "done" /\ acc[2].pc = "done" /\ acc[3].pc = "read"
    /\ \E b \in Lotes : b.texto = Texto(1) \o "\n" \o Texto(2)
    /\ Cardinality(dispatched) = 1
    /\ passo.n = 1
    /\ desp.n = 1 /\ desp.pc = "idle" /\ desp.entregue
    /\ desp.codConversa = Ponteiro

\* The failures that leave processar_com_chatbot or the rest of
\* processar_e_responder as an exception.
Excecoes == {"invoke", "consulta", "sessao_ilegivel", "memoria_ilegivel"}

\* C25: a call of processar_e_responder in which an exception was raised ends
\* with a reply delivered to the correspondent.
C25_ExceptionGetsApology ==
    [][(DespachoTermina /\ desp'.falhas \cap Excecoes # {}) =>
           desp'.entregue]_vars

\* C26: a call of processar_e_responder whose agent invocation failed, by an
\* error status or by raising, ends with the fixed sentence handed to the
\* delivery gateway.
C26_FallbackOnAgentFailure ==
    [][(DespachoTermina /\ desp'.agente \in {"error", "raise"}) =>
           desp'.texto = Indisponivel]_vars

\* C27: when the agent is invoked for a message the history log holds the
\* entry of that message, and when a call of processar_e_responder ends with
\* a reply produced the history log holds the entry of that reply.
C27_HistoryHoldsBothTurns ==
    [][/\ InvocaRoda =>
            \E i \in 1..Len(historico) :
                historico[i] = [quem |-> "motorista", n |-> desp.n]
       /\ (DespachoTermina /\ desp'.texto # "") =>
            \E i \in 1..Len(historico') :
                historico'[i] = [quem |-> "assistente", n |-> desp.n,
                                 texto |-> desp'.texto]]_vars

\* C28: a lifecycle call that finds a stored session pointer, or a stored
\* memory timestamp, that cannot be parsed does not raise: it mints a fresh
\* one, stores it, and the pass goes on to its next call.
C28_UnparseableFallsBack ==
    [][/\ (desp.pc = "processar" /\ passo.pc = "idle" /\ SessaoIlegivel
              /\ passo' # passo) =>
            /\ desp'.falhas \cap Excecoes = {}
            /\ passo'.pc = "memoria"
            /\ passo'.session_id = now
            /\ passo'.falhou = passo.falhou => Ponteiro' = now
       /\ (desp.pc = "processar" /\ passo.pc = "memoria" /\ MemoriaIlegivel
              /\ passo' # passo) =>
            /\ desp'.falhas \cap Excecoes = {}
            /\ passo'.pc = "agente"
            /\ passo'.tempo_memoria = now
            /\ passo'.falhou = passo.falhou =>
                  MaisRecente(negociacao').attrs["tempo_memoria"] = now]_vars

\* The failures that the lifecycle and the rebuilding of the context swallow:
\* the query of _get_previous_negotiation_data, a put_item or update_item of
\* the ledger, build_context_from_history.
FalhasNaoFatais == {"heranca", "escrita", "reconstrucao"}

\* C29: a failure of the inheritance read, of a ledger write or of the
\* rebuilding of the context does not end the pass: the session call returns
\* a pointer and the pass goes on to the memory call, the agent is invoked
\* with that pointer, without a rebuilt context when the rebuilding failed,
\* and a call of processar_e_responder in which nothing else failed ends with
\* the reply delivered.
C29_FailuresAreNotFatal ==
    [][/\ (desp.pc = "processar" /\ passo.pc = "idle" /\ passo'.pc # "idle") =>
            /\ passo'.pc = "memoria"
            /\ passo'.session_id # Ausente
            /\ desp'.pc = "processar"
       /\ (desp.pc = "processar" /\ passo.pc = "memoria" /\ passo' # passo) =>
            /\ passo'.pc = "agente"
            /\ passo'.session_id = passo.session_id
            /\ desp'.pc = "processar"
       /\ InvocaRoda =>
            /\ desp'.codConversa = passo.session_id
            /\ desp'.codConversa # Ausente
            /\ "reconstrucao" \in desp'.falhas =>
                  ~desp'.contexto /\ desp'.pc = "responder"
       /\ (DespachoTermina /\ desp'.falhas \subseteq FalhasNaoFatais) =>
            /\ desp.pc = "responder"
            /\ desp'.entregue
            /\ desp'.texto = Resposta]_vars

\* A call of processar_e_responder in which the inheritance read, the ledger
\* writes and the rebuilding of the context all failed has delivered the
\* agent's reply.
C29_Witness ==
    /\ desp.pc = "idle"
    /\ desp.falhas = FalhasNaoFatais
    /\ desp.reconstruiu /\ ~desp.contexto
    /\ desp.codConversa # Ausente
    /\ desp.entregue /\ desp.texto = Resposta

\* ------------------------------------------- properties of concurrent passes
\* Both concurrent passes renewed the pointer and have returned.
AmbosRenovaram ==
    \A p \in Passes : renov[p].pc = "fim" /\ renov[p].ramo = "renova"

\* The latest item that the renewing passes found.
ItemAnterior == MaisRecente(renov[1].visto).attrs

C31_NormalizeIdempotent ==
    tel.pc = "duas" =>
        /\ tel.duas = tel.uma
        /\ tel.oferta_duas = tel.oferta_uma
        /\ tel.uma \in Seq(Digitos)
        /\ tel.oferta_uma \in Seq(Digitos)

\* An address written with strokes and without the country code was
\* normalized to 13 digits, and normalizing those again left them as they were.
C31_Witness ==
    /\ tel.pc = "duas"
    /\ Len(tel.entrada) = 22
    /\ Len(tel.uma) = 13
    /\ ComecaCom55(tel.uma)
    /\ tel.duas = tel.uma
    /\ tel.oferta_duas = tel.uma

\* The digits of an address are in one of the shapes that the normalization
\* knows: 13 digits with the country code, 11 digits, or more than 13 digits
\* of which the last 13 begin with the country code.
Reconhecido(l) ==
    \/ Len(l) = 11
    \/ Len(l) = 13 /\ ComecaCom55(l)
    \/ Len(l) > 13 /\ ComecaCom55(Ultimos13(l))

RECURSIVE Contribuicoes(_)
Contribuicoes(mensagens) ==
    IF Len(mensagens) = 0 THEN <<>>
    ELSE LET msg == Head(mensagens)
             t == IF msg.tipo = "TEXT" THEN msg.texto
                  ELSE IF Selecionada(msg, msg.tipo) THEN Convertido(msg)
                  ELSE ""
         IN (IF t # "" THEN <<t>> ELSE <<>>) \o Contribuicoes(Tail(mensagens))

\* A message of the batch carries a reply-to reference.
TemResposta == \E i \in DOMAIN lote.mensagens : lote.mensagens[i].mensagemResposta.presente

\* s begins with p / s holds p.
ComecaCom(s, p) == Len(s) >= Len(p) /\ SubSeq(s, 1, Len(p)) = p
Contem(s, p) == \E k \in 0..(Len(s) - Len(p)) : SubSeq(s, k + 1, k + Len(p)) = p

\* C33: the combined text of a dispatched batch is the texts of its messages
\* joined by newlines in the order of arrival, the converted text of a
\* message that is not a text standing where the message arrived. Stated for
\* the batches without a reply-to reference that hold a text.
C33_TextInArrivalOrder ==
    (/\ lote # SemLote
     /\ lote.pc = "despachado"
     /\ ~TemResposta
     /\ \E i \in DOMAIN lote.mensagens : lote.mensagens[i].tipo = "TEXT") =>
        lote.texto = JoinLines(Contribuicoes(lote.mensagens))

\* C34: when a message of the batch carries a reply-to reference, the
\* combined text begins with the line that names the message replied to.
C34_ContextLineFirst ==
    (lote # SemLote /\ lote.pc = "despachado" /\ TemResposta) =>
        \E i \in DOMAIN lote.mensagens :
            /\ lote.mensagens[i].mensagemResposta.presente
            /\ ComecaCom(lote.texto,
                         LinhaDeContexto(lote.mensagens[i].mensagemResposta))

\* The conversion of the file of a message did not go through.
ConversaoFalhou(msg) ==
    /\ msg.tipo \in {"audio", "document", "image"}
    /\ msg.nomeArquivo # ""
    /\ msg.resultado # "ok"

\* C35: a batch in which the conversion of an audio, a document or an image
\* fails is dispatched all the same, and the combined text holds a
\* placeholder for the message whose conversion failed. Stated for the
\* batches without a location.
C35_ConversionFailureGivesPlaceholder ==
    (/\ lote # SemLote
     /\ lote.pc # "drenado"
     /\ \A i \in DOMAIN lote.mensagens : lote.mensagens[i].tipo # "location") =>
        /\ lote.pc = "despachado"
        /\ \A i \in DOMAIN lote.mensagens :
              ConversaoFalhou(lote.mensagens[i]) =>
                  /\ Convertido(lote.mensagens[i]) # ""
                  /\ Contem(lote.texto, Convertido(lote.mensagens[i]))

\* The part of C35 that holds: the failure of a conversion does not end the
\* handler of the batch.
ConversaoNaoInterrompe ==
    (/\ lote # SemLote
     /\ lote.pc # "drenado"
     /\ \A i \in DOMAIN lote.mensagens : lote.mensagens[i].tipo # "location") =>
        lote.pc = "despachado"

\* ------------------------------------------------ properties of the interleaving
\* Message m is in the batch that the Fire of wakeup k returned.
NoLoteDe(m, k) ==
    /\ wk[k].pc = "done"
    /\ \E i \in 1..Len(wk[k].mensagens) : wk[k].mensagens[i].codMensagem = m

\* Accept stored message m and told the handler not to process it at once.
Guardada(m) == acc[m].pc = "done" /\ ~acc[m].deve_processar

\* C36: over every interleaving of the Accepts and Fires of one correspondent,
\* no message is in the batches returned by two different Fires.
C36_NoDuplication ==
    \A m, j, k \in MsgIds :
        (NoLoteDe(m, j) /\ NoLoteDe(m, k)) => j = k

\* C37: every message that Accept stored is eventually in the batch returned
\* by some Fire, when every wakeup that was scheduled runs its Fire.
C37_NoLoss ==
    \A m \in MsgIds :
        Guardada(m) ~> (\E k \in MsgIds : NoLoteDe(m, k))

\* C38: in every state of the record, timer_active = true goes with a
\* non-empty pending_messages and a stored token, and timer_active = false
\* with an empty pending_messages and no token.
C38_RecordShape ==
    /\ item.timer_active =>
          (item.pending_messages # <<>> /\ item.timer_timestamp # NoTimer)
    /\ ~item.timer_active =>
          (item.pending_messages = <<>> /\ item.timer_timestamp = NoTimer)

CopiasTerminaram ==
    /\ copias # SemCopias
    /\ copias.coordenador.pc = "fim"
    /\ copias.agente.pc = "fim"

\* C40: called on the same ledger at the same instant, the
\* _get_or_create_session_id of the responder and that of the chatbot Lambda
\* return the same pointer and leave the same latest item, inherited facts and
\* memory timestamp included.
C40_CopiesAgree ==
    CopiasTerminaram =>
        /\ copias.coordenador.session_id = copias.agente.session_id
        /\ MaisRecente(copias.coordenador.tabela)
               = MaisRecente(copias.agente.tabela)

\* The part of C40 that holds: the two copies return the same pointer.
CopiasDevolvemOMesmoPonteiro ==
    CopiasTerminaram =>
        copias.coordenador.session_id = copias.agente.session_id

====
